---------------------------- MODULE Spec2Model ----------------------------
(***************************************************************************)
(* Model of the job-processing agent of smartprint/vendor_client.py       *)
(* (class AutomatedVendorPrintClient with PrintJobQueue, PrinterManager   *)
(* and find_working_printer).                                             *)
(*                                                                         *)
(* Threads of the program that appear here:                               *)
(*   - the WebSocket thread running on_message (one message at a time);   *)
(*   - dispatcher threads running process_print_queue;                    *)
(*   - worker-pool executions of process_job_with_printer, each followed  *)
(*     by its done-callback on_job_complete;                              *)
(*   - the environment: printers going on and off line, the live channel  *)
(*     connecting and disconnecting.                                      *)
(* A probe of the printers is an input of the step that makes it: the     *)
(* status words are read nowhere else.  The platform calls of the probe   *)
(* are taken not to raise; executor.submit may raise (no thread can be    *)
(* started, or the pool is shut down), which is an input of the dispatch  *)
(* step too.  The process keeps is_running = True throughout.             *)
(*                                                                         *)
(* Steps of a dispatcher thread: each is_empty() test of the loop is a    *)
(* step of its own, so that the queues can change between the test of the *)
(* retry queue and the test of the normal queue; the dequeue that follows *)
(* a successful test is taken with it (a dequeue that finds the queue     *)
(* emptied in between makes an iteration that does nothing).  The         *)
(* done-callback of an execution is two steps: handle_job_completion,     *)
(* then the finally block that sets the printer idle.                     *)
(*                                                                         *)
(* The agent (Spec) sees its two PrintJobQueue objects as sequences.  The  *)
(* linked list behind them -- head, tail, size and the next_node of the    *)
(* nodes -- is modelled for one queue on its own: FifoSpec makes enqueue   *)
(* and dequeue calls, QueueSpec calls of every operation, one call after   *)
(* the other; ThreadsSpec runs enqueue, dequeue and remove_by_filename     *)
(* statement by statement in several threads under self.lock.  In these    *)
(* three a caller enqueues a node it holds: a new one or one that dequeue  *)
(* returned.                                                               *)
(*                                                                         *)
(* Parts of the client the agent's steps do not reach have a               *)
(* specification each, over variables the others keep: IngestSpec (on_     *)
(* message with malformed messages), CheckpointSpec (the checkpoint files  *)
(* and the four functions on them), VerifySpec (one call of                *)
(* wait_for_job_in_and_out_of_queue against the device's job list),        *)
(* RegistrySpec (a PrinterManager of any max_printers called from          *)
(* outside), ConnSpec (run(), the WebSocketApp callbacks and the           *)
(* job_request_loop threads), ConnLiveSpec (ConnSpec with the main         *)
(* thread scheduled), RequeueSpec (QueueSpec plus enqueue of nodes that    *)
(* remove_by_filename took out), IntakeSpec (the WebSocket handler, the    *)
(* vendor API poller and the directory watcher statement by statement,     *)
(* with the process_print_queue threads they start, any number of them)    *)
(* and SimpleSpec (the simple client of src/vendor_client.py handling a    *)
(* print_jobs_response job by job).                                        *)
(***************************************************************************)
EXTENDS Integers, Sequences, FiniteSets, TLC

\* ------------------------------------------------------------------ bounds
\* Number of PrintJobNode objects ever constructed.
MaxRecords == 2
\* Number of failed attempts the environment inflicts on one record.
MaxFails == 3
\* Number of process_print_queue threads alive at the same time.
MaxThreads == 1
\* Longest print_jobs_response batch.
MaxBatch == 2
\* Number of PrintJobNode objects the callers of one PrintJobQueue share.
MaxNodes == 3
\* Number of enqueue calls made on that queue.
MaxEnqueues == 4
\* Number of threads calling into that queue at the same time.
MaxCallers == 2
\* Printers attached to the host the agent runs on.
MaxAttached == 1
\* Largest max_printers a PrinterManager is constructed with on its own.
MaxCapacity == 2
\* job_request_loop threads alive at a time, and jobs in the normal queue
\* while they run.
MaxLoops == 2
MaxQueueSize == 6
\* Ticks of the wall clock the checkpoint directory is watched for.
MaxClock == 3
\* Largest copies count of a print job with a checkpoint.
MaxCopies == 2
\* Enqueues into print_queue by the three channels of ingestion.
MaxIntake == 3
\* Job ids the coordinator hands to the simple client.
MaxJobIds == 2

\* ------------------------------------------------------- program constants
\* PrintJobNode.max_attempts default.
max_attempts == 3

\* PrinterManager.max_printers default, which the client constructs it with.
max_printers == 10

\* Job ids (filenames) the coordinator sends.
Filenames == {"a.pdf", "b.pdf"}
\* Printer names, and those of them that win32print.EnumPrinters returns on
\* the agent's host, in the order find_working_printer probes them.
PrinterNames == <<"HP1", "HP2">>
PrinterOrder == SubSeq(PrinterNames, 1, MaxAttached)
Printers == {PrinterNames[i] : i \in 1..Len(PrinterNames)}
\* PrinterManager.primary_printer, registered by __init__.
primary_printer == "HP1"
None == "None"

VARIABLES
    jobs,                   \* every PrintJobNode constructed so far, by record number
    print_queue,            \* self.print_queue: record numbers, head first
    failed_jobs_queue,      \* self.failed_jobs_queue: record numbers, head first
    processed_jobs,         \* self.processed_jobs: set of filenames
    printer_status,         \* PrinterManager.printer_status (None: not registered)
    printer_jobs,           \* PrinterManager.printer_jobs: record number or 0
    ws_connected,           \* self.ws and self.ws.sock
    queue_processor_running,\* self.queue_processor_running
    pc,                     \* position of each process_print_queue thread
    running,                \* executions in the worker pool: [rec, printer, priority]
    releasing,              \* printers a done-callback has still to set idle
    stats,                  \* per record: what has happened to it (history)
    handled_msg             \* the inbound message on_message handled in the last step

\* One PrintJobQueue object with its nodes, looked at on its own.
VARIABLES
    q_head,                 \* self.head: a node, 0 for None
    q_tail,                 \* self.tail: a node, 0 for None
    q_size,                 \* self.size
    next_node,              \* next_node of every PrintJobNode, 0 for None
    held,                   \* nodes a caller holds outside the queue
    enq_log,                \* the nodes passed to enqueue, in call order (history)
    deq_log,                \* the nodes dequeue returned, in call order (history)
    q_call                  \* the queue call made in the last step and its result

agent_vars == <<jobs, print_queue, failed_jobs_queue, processed_jobs, printer_status,
                printer_jobs, ws_connected, queue_processor_running, pc,
                running, releasing, stats, handled_msg>>

queue_vars == <<q_head, q_tail, q_size, next_node, held, enq_log, deq_log, q_call>>

\* Threads inside the operations of that queue.
VARIABLES
    lock,                   \* self.lock: the caller that owns it, 0 when free
    callers,                \* per calling thread: position, operation, locals
    ref_queue               \* the queue as the calls completed so far leave it (history)

caller_vars == <<lock, callers, ref_queue>>

\* The checkpoint files in tempfile.gettempdir().
VARIABLES
    files,                  \* per job filename: its .checkpoint and its .data file
    clock,                  \* time.time(), in ticks
    ck_call                 \* the checkpoint call made in the last step and its result

checkpoint_vars == <<files, clock, ck_call>>

\* One call of wait_for_job_in_and_out_of_queue and the device's job list.
VARIABLES
    verify,                 \* the call: its position, locals and return value
    spooled                 \* whether the device lists a job with the filename

verify_vars == <<verify, spooled>>

\* The PrinterManager beside its registry (printer_status, printer_jobs).
VARIABLES
    capacity,               \* PrinterManager.max_printers
    reg_call                \* the registry call made in the last step

registry_vars == <<capacity, reg_call>>

\* The thread in run(), the WebSocketApp it runs and the job_request_loop
\* threads that on_open starts.
VARIABLES
    conn,                   \* run(): position, is_running, ws.sock, the last wait
    loops,                  \* job_request_loop threads alive
    queue_size,             \* print_queue.get_size() as those threads read it
    req                     \* the request_print_jobs decision of the last step

conn_vars == <<conn, loops, queue_size, req>>

\* The channels besides the WebSocket that bring jobs in, with the threads
\* that run them and the process_print_queue threads they start.
VARIABLES
    seen_tokens,            \* self.seen_tokens
    job_files,              \* the tokens with a <token>.json in vendor_jobs
    enqueued,               \* every enqueue into print_queue, in order (history)
    taken,                  \* how many of them the dispatcher has dequeued
    completed,              \* filenames of executions that succeeded (history)
    poller,                 \* vendor_api_poller: position and the job in hand
    watcher,                \* job_directory_watcher: position, the files of its scan
    loop_threads            \* process_print_queue threads started / running

intake_vars == <<seen_tokens, job_files, enqueued, taken, completed, poller,
                 watcher, loop_threads>>

\* The simple client (VendorPrintClient of src/vendor_client.py): the
\* print_jobs_response it is handling and the calls it has made for it.
VARIABLES
    simple

more_vars == <<intake_vars, simple>>

\* The variables that the agent and the queue on its own leave alone.
side_vars == <<checkpoint_vars, verify_vars, registry_vars, conn_vars, more_vars>>

vars == <<agent_vars, queue_vars, caller_vars, side_vars>>

Threads == 1..MaxThreads
Recs == 1..Len(jobs)

\* PrintJobNode(filename=...) with the dataclass defaults.
PrintJobNode(filename) ==
    [filename |-> filename, status |-> "pending", attempts |-> 0]

\* History of one record: failed attempts (executions that failed and
\* submissions to the pool that raised), times handle_job_completion put
\* it in the retry queue, job_completed / job_failed messages sent on the live
\* channel for it, HTTP status updates posted for it.
NoStats == [fails |-> 0, retries |-> 0, completed_sent |-> 0, failed_sent |-> 0,
            r2_updates |-> 0]

\* Inbound messages that reach a handler (metadata.status = 'no').
BatchesOfLen(n) == [1..n -> Filenames]
Batches == UNION {BatchesOfLen(n) : n \in 1..MaxBatch}
Messages == {[type |-> "print_job", jobs |-> <<f>>] : f \in Filenames}
            \cup {[type |-> "print_jobs_response", jobs |-> b] : b \in Batches}
NoMsg == [type |-> "none", jobs |-> <<>>]

\* Descriptors that make the handling raise: an element that is no dict
\* (job.get raises in on_message) and a dict whose filename is unhashable
\* (the membership test in processed_jobs raises in the handler).
NotADict == "not a dict"
UnhashableId == "unhashable filename"
BadDescriptors == {NotADict, UnhashableId}
\* Descriptors of jobs the coordinator no longer lists as pending: their
\* metadata.status is not 'no'.
PrintedDescriptors == {"a.pdf, status yes", "b.pdf, status yes"}
\* job.get('metadata', {}).get('status') and job.get('filename', 'unknown')
\* of a descriptor that is a dict.
metadata_status(job) == IF job \in PrintedDescriptors THEN "yes" ELSE "no"
job_filename(job) ==
    CASE job = "a.pdf, status yes" -> "a.pdf"
      [] job = "b.pdf, status yes" -> "b.pdf"
      [] OTHER -> job
\* Everything the live channel can deliver: the messages above, text that is
\* no JSON, a JSON object of unknown type, the two types that are only
\* logged, messages with descriptors that are not pending, and messages with
\* bad descriptors.
InboundMessages ==
    Messages
    \cup {[type |-> t, jobs |-> <<>>] :
            t \in {"invalid json", "unknown", "job_status_updated", "error"}}
    \cup {[type |-> "print_job", jobs |-> <<d>>] : d \in PrintedDescriptors}
    \cup {[type |-> "print_jobs_response", jobs |-> b] :
            b \in {c \in UNION {[1..n -> Filenames \cup PrintedDescriptors] : n \in 1..MaxBatch} :
                     \E i \in 1..Len(c) : c[i] \in PrintedDescriptors}}
    \cup {[type |-> "print_job", jobs |-> <<d>>] : d \in BadDescriptors}
    \cup {[type |-> "print_jobs_response", jobs |-> b] :
            b \in {c \in UNION {[1..n -> Filenames \cup BadDescriptors] : n \in 1..MaxBatch} :
                     \E i \in 1..Len(c) : c[i] \in BadDescriptors}}

\* Seconds in one tick of the clock, and the age from which
\* _check_resume_checkpoint takes a checkpoint for stale.
TickSeconds == 43200
StaleAfterSeconds == 86400
\* print_settings as prepare_print_settings builds them (of its nine keys, the
\* number and one of the strings), and the empty dict.
PrintSettings == [copies : 1..MaxCopies, color : {"bw"}]
EmptyDict == [copies |-> 0, color |-> ""]
\* Payload bytes of a document.
Documents == {"%PDF-1", "%PDF-2"}
\* A .checkpoint file: whether it exists, its modification time, and the JSON
\* text in it: an object whose members are tagged values.
NoCheckpoint == [exists |-> FALSE, mtime |-> 0,
                 text |-> [completed_copies |-> <<"number", 0>>]]
\* What _check_resume_checkpoint returns: None (resumable FALSE) or its dict.
NoResume == [resumable |-> FALSE, document_data |-> None,
             print_settings |-> EmptyDict, completed_copies |-> 0]
NoCheckpointCall == [op |-> "none", filename |-> None, document_data |-> None,
                     print_settings |-> EmptyDict, completed_copies |-> 0,
                     result |-> NoResume]
\* wait_for_job_in_and_out_of_queue: sends of the print, polls for the job
\* to appear after each send, polls for it to leave.
verify_max_retries == 5
appear_polls == 15
leave_polls == 60
\* The call before it starts.  seen is what is_job_in_queue returned last.
NoVerify == [pc |-> "idle", appeared |-> FALSE, retries |-> 0, polls |-> 0,
             sent |-> 0, seen |-> FALSE, result |-> FALSE]

Nodes == 1..MaxNodes
\* PrintJobNode.filename of the nodes: the first and the last carry the same.
node_filename(n) == IF n = 2 THEN "b.pdf" ELSE "a.pdf"
NoCall == [op |-> "none", filename |-> None, node |-> 0, found |-> FALSE]
Callers == 1..MaxCallers
\* A thread that is in no queue operation.
Idle == [pc |-> "idle", op |-> "none", filename |-> None, node |-> 0,
         found |-> FALSE, size_read |-> 0]

\* Seconds on_close sleeps before connect_websocket, seconds run() sleeps
\* after an exception, and the queue size from which job_request_loop skips.
close_delay == 5
retry_delay == 10
queue_full == 5
\* run() before its first connection; no request decided.
NoConn == [pc |-> "while", is_running |-> TRUE, sock |-> FALSE,
           last |-> "none", waited |-> 0]
\* The poller and the watcher between two rounds, no dispatcher thread, and
\* the simple client before its first message.
NoPoller == [pc |-> "idle", filename |-> None]
NoWatcher == [pc |-> "idle", job_files |-> <<>>]
NoLoops == [started |-> 0, running |-> 0]
NoClient == [pc |-> "idle", jobs |-> <<>>, at |-> 0, connected |-> TRUE,
             processed |-> <<>>, calls |-> <<>>, sent |-> <<>>]
NoRequest == [by |-> "none", sent |-> FALSE]

NoRegistryCall == [op |-> "none", printer |-> None, returns |-> FALSE]

\* The state after construction, with a PrinterManager of max_printers = cap:
\* its __init__ calls add_printer(primary_printer) on the empty registry.
Construct(cap) ==
    /\ capacity = cap
    /\ reg_call = NoRegistryCall
    /\ jobs = <<>>
    /\ print_queue = <<>>
    /\ failed_jobs_queue = <<>>
    /\ processed_jobs = {}
    /\ printer_status = [p \in Printers |->
                            IF p = primary_printer /\ 0 < cap THEN "idle" ELSE None]
    /\ printer_jobs = [p \in Printers |-> 0]
    /\ ws_connected = FALSE
    /\ queue_processor_running = FALSE
    /\ pc = [t \in Threads |-> "none"]
    /\ running = {}
    /\ releasing = {}
    /\ stats = <<>>
    /\ handled_msg = NoMsg
    /\ q_head = 0
    /\ q_tail = 0
    /\ q_size = 0
    /\ next_node = [n \in Nodes |-> 0]
    /\ held = Nodes
    /\ enq_log = <<>>
    /\ deq_log = <<>>
    /\ q_call = NoCall
    /\ lock = 0
    /\ callers = [c \in Callers |-> Idle]
    /\ ref_queue = <<>>
    /\ files = [f \in Filenames |-> [checkpoint |-> NoCheckpoint, data |-> None]]
    /\ clock = 0
    /\ ck_call = NoCheckpointCall
    /\ verify = NoVerify
    /\ spooled = FALSE
    /\ conn = NoConn
    /\ loops = 0
    /\ queue_size = 0
    /\ req = NoRequest
    /\ seen_tokens = {}
    /\ job_files = {}
    /\ enqueued = <<>>
    /\ taken = 0
    /\ completed = {}
    /\ poller = NoPoller
    /\ watcher = NoWatcher
    /\ loop_threads = NoLoops
    /\ simple = NoClient

Init == Construct(max_printers)

\* ------------------------------------------------------------ PrintJobQueue
is_empty(q) == Len(q) = 0
enqueue(q, r) == Append(q, r)
\* dequeue returns the head (0 for None) and leaves the rest.
dequeue_result(q) == IF Len(q) = 0 THEN 0 ELSE Head(q)
dequeue_rest(q) == IF Len(q) = 0 THEN q ELSE Tail(q)

\* ----------------------------------------------------------- PrinterManager
\* What a probe of the platform finds: for each printer, whether
\* GetPrinter(handle, 2)['Status'] == 0. Printers go on and off line at will,
\* so every probe may find any of these.
Probes == [{PrinterOrder[i] : i \in 1..Len(PrinterOrder)} -> BOOLEAN]

RECURSIVE FirstWorking(_, _)
FirstWorking(hw_ok, i) ==
    IF i > Len(PrinterOrder) THEN None
    ELSE IF hw_ok[PrinterOrder[i]] THEN PrinterOrder[i]
    ELSE FirstWorking(hw_ok, i + 1)

\* The first enumerated printer whose status word is 0, whatever the
\* registry says about it.
find_working_printer(hw_ok) == FirstWorking(hw_ok, 1)

Registered(status) == {p \in Printers : status[p] # None}

add_printer_without_limit(status, p) ==
    [returns |-> TRUE, printer_status |-> [status EXCEPT ![p] = "idle"]]

\* add_printer: refuses at capacity, otherwise (re)sets the printer to idle.
\* What it returns, and the registry it leaves.
add_printer(status, p) ==
    IF Cardinality(Registered(status)) >= capacity
    THEN [returns |-> FALSE, printer_status |-> status]
    ELSE [returns |-> TRUE, printer_status |-> [status EXCEPT ![p] = "idle"]]

get_available_printer(hw_ok) == find_working_printer(hw_ok)

\* Registry after get_available_printer returned p (p # None).
RegistryAfterProbe(p) ==
    IF printer_status[p] = None THEN add_printer(printer_status, p).printer_status
    ELSE printer_status

set_printer_busy(status, p) ==
    IF status[p] # None THEN [status EXCEPT ![p] = "busy"] ELSE status

set_printer_idle(status, p) ==
    IF status[p] # None THEN [status EXCEPT ![p] = "idle"] ELSE status

set_printer_error(status, p) ==
    IF status[p] # None THEN [status EXCEPT ![p] = "error"] ELSE status

\* ------------------------------------------------------- dispatcher threads
FreeThreads == {t \in Threads : pc[t] = "none"}
FreeThread == CHOOSE t \in FreeThreads : \A u \in FreeThreads : t <= u

\* "if not self.queue_processor_running: Thread(target=process_print_queue).start()"
CanStartProcessor == queue_processor_running \/ FreeThreads # {}
StartProcessor ==
    IF queue_processor_running THEN pc ELSE [pc EXCEPT ![FreeThread] = "start"]

\* ---------------------------------------------------------------- ingestion
\* handle_new_print_job without its "already processed" test.
handle_new_print_job_unchecked(filename) ==
    /\ Len(jobs) < MaxRecords
    /\ CanStartProcessor
    /\ jobs' = Append(jobs, PrintJobNode(filename))
    /\ stats' = Append(stats, NoStats)
    /\ print_queue' = enqueue(print_queue, Len(jobs) + 1)
    /\ pc' = StartProcessor
    /\ UNCHANGED processed_jobs

handle_new_print_job(filename) ==
    IF filename \in processed_jobs
    THEN UNCHANGED <<jobs, stats, print_queue, pc, processed_jobs>>
    ELSE /\ Len(jobs) < MaxRecords
         /\ CanStartProcessor
         /\ jobs' = Append(jobs, PrintJobNode(filename))
         /\ stats' = Append(stats, NoStats)
         /\ print_queue' = enqueue(print_queue, Len(jobs) + 1)
         /\ pc' = StartProcessor
         /\ UNCHANGED processed_jobs

\* The filenames of a batch that are not in the handled set, each once.
RECURSIVE NewJobs(_, _)
NewJobs(batch, processed) ==
    IF batch = <<>> THEN <<>>
    ELSE IF Head(batch) \in processed THEN NewJobs(Tail(batch), processed)
    ELSE <<Head(batch)>> \o NewJobs(Tail(batch), processed \cup {Head(batch)})

SeqRange(s) == {s[i] : i \in 1..Len(s)}

\* handle_multiple_print_jobs that tests every descriptor against the handled
\* set as it stood before the batch (ids are marked after the loop).
handle_multiple_print_jobs_marking_late(batch) ==
    LET new_jobs == SelectSeq(batch, LAMBDA f : f \notin processed_jobs) IN
    IF new_jobs = <<>>
    THEN UNCHANGED <<jobs, stats, print_queue, pc, processed_jobs>>
    ELSE /\ Len(jobs) + Len(new_jobs) <= MaxRecords
         /\ CanStartProcessor
         /\ jobs' = jobs \o [i \in 1..Len(new_jobs) |-> PrintJobNode(new_jobs[i])]
         /\ stats' = stats \o [i \in 1..Len(new_jobs) |-> NoStats]
         /\ print_queue' = print_queue \o [i \in 1..Len(new_jobs) |-> Len(jobs) + i]
         /\ processed_jobs' = processed_jobs \cup SeqRange(new_jobs)
         /\ pc' = StartProcessor

\* handle_multiple_print_jobs that starts the queue processor whether or not
\* the batch brought a new job.
handle_multiple_print_jobs_always_starting(batch) ==
    LET new_jobs == NewJobs(batch, processed_jobs) IN
    /\ Len(jobs) + Len(new_jobs) <= MaxRecords
    /\ CanStartProcessor
    /\ jobs' = jobs \o [i \in 1..Len(new_jobs) |-> PrintJobNode(new_jobs[i])]
    /\ stats' = stats \o [i \in 1..Len(new_jobs) |-> NoStats]
    /\ print_queue' = print_queue \o [i \in 1..Len(new_jobs) |-> Len(jobs) + i]
    /\ processed_jobs' = processed_jobs \cup SeqRange(new_jobs)
    /\ pc' = StartProcessor

\* The descriptors of a batch that the loop gets through before one raises.
RECURSIVE BeforeRaise(_)
BeforeRaise(batch) ==
    IF batch = <<>> \/ Head(batch) \in BadDescriptors THEN <<>>
    ELSE <<Head(batch)>> \o BeforeRaise(Tail(batch))

handle_multiple_print_jobs(batch) ==
    LET new_jobs == NewJobs(BeforeRaise(batch), processed_jobs) IN
    IF BeforeRaise(batch) # batch
    THEN /\ processed_jobs' = processed_jobs \cup SeqRange(new_jobs)
         /\ UNCHANGED <<jobs, stats, print_queue, pc>>
    ELSE IF new_jobs = <<>>
    THEN UNCHANGED <<jobs, stats, print_queue, pc, processed_jobs>>
    ELSE /\ Len(jobs) + Len(new_jobs) <= MaxRecords
         /\ CanStartProcessor
         /\ jobs' = jobs \o [i \in 1..Len(new_jobs) |-> PrintJobNode(new_jobs[i])]
         /\ stats' = stats \o [i \in 1..Len(new_jobs) |-> NoStats]
         /\ print_queue' = print_queue \o [i \in 1..Len(new_jobs) |-> Len(jobs) + i]
         /\ processed_jobs' = processed_jobs \cup SeqRange(new_jobs)
         /\ pc' = StartProcessor

\* The filenames of a list of descriptors (an unhashable filename stays what
\* it is).
Filenames_of(batch) == [i \in 1..Len(batch) |-> job_filename(batch[i])]

\* on_message that hands every descriptor to the handlers, whatever its
\* metadata.status.
on_message_without_status_filter(m) ==
    /\ CASE m.type = "print_job" /\ m.jobs[1] \notin BadDescriptors ->
                handle_new_print_job(job_filename(m.jobs[1]))
         [] m.type = "print_jobs_response" /\ NotADict \notin SeqRange(m.jobs) ->
                handle_multiple_print_jobs(Filenames_of(m.jobs))
         [] OTHER -> UNCHANGED <<jobs, stats, print_queue, pc, processed_jobs>>
    /\ handled_msg' = m
    /\ UNCHANGED <<queue_vars, caller_vars, side_vars>>
    /\ UNCHANGED <<failed_jobs_queue, printer_status, printer_jobs,
                   ws_connected, queue_processor_running, running, releasing>>

\* on_message(ws, message): a descriptor that is no dict makes the status
\* test raise, an unhashable filename makes handle_new_print_job raise at its
\* first test; the two logged types, an unknown type and text that is no
\* JSON reach no handler.
on_message(m) ==
    /\ CASE m.type = "print_job" /\ m.jobs[1] \notin BadDescriptors
                                 /\ metadata_status(m.jobs[1]) = "no" ->
                handle_new_print_job(job_filename(m.jobs[1]))
         [] m.type = "print_jobs_response" /\ NotADict \notin SeqRange(m.jobs) ->
                LET pending_jobs ==
                        SelectSeq(m.jobs, LAMBDA job : metadata_status(job) = "no") IN
                IF pending_jobs # <<>>
                THEN handle_multiple_print_jobs(Filenames_of(pending_jobs))
                ELSE UNCHANGED <<jobs, stats, print_queue, pc, processed_jobs>>
         [] OTHER -> UNCHANGED <<jobs, stats, print_queue, pc, processed_jobs>>
    /\ handled_msg' = m
    /\ UNCHANGED <<queue_vars, caller_vars, side_vars>>
    /\ UNCHANGED <<failed_jobs_queue, printer_status, printer_jobs,
                   ws_connected, queue_processor_running, running, releasing>>

\* ----------------------------------------------------------- status reports
\* notify_job_completed / notify_job_failed send only on a live socket.
notify_job_completed(st, r) ==
    IF ws_connected THEN [st EXCEPT ![r].completed_sent = @ + 1] ELSE st

notify_job_failed(st, r) ==
    IF ws_connected THEN [st EXCEPT ![r].failed_sent = @ + 1] ELSE st

update_r2_job_status(st, r) == [st EXCEPT ![r].r2_updates = @ + 1]

\* ------------------------------------------------------ completion handling
\* handle_job_completion that reports job_failed on every failure, retried
\* or not.
handle_job_completion_reporting_each_failure(r, success, st, fq) ==
    IF success
    THEN /\ jobs' = [jobs EXCEPT ![r].status = "completed"]
         /\ processed_jobs' = processed_jobs \cup {jobs[r].filename}
         /\ stats' = update_r2_job_status(notify_job_completed(st, r), r)
         /\ failed_jobs_queue' = fq
    ELSE /\ jobs' = [jobs EXCEPT ![r].status = "failed"]
         /\ IF jobs[r].attempts < max_attempts
            THEN /\ failed_jobs_queue' = enqueue(fq, r)
                 /\ stats' = notify_job_failed([st EXCEPT ![r].retries = @ + 1], r)
                 /\ UNCHANGED processed_jobs
            ELSE /\ stats' = notify_job_failed(st, r)
                 /\ processed_jobs' = processed_jobs \ {jobs[r].filename}
                 /\ failed_jobs_queue' = fq

\* handle_job_completion(job_node, success, was_priority); st is the history
\* with this attempt's outcome already counted, fq the retry queue as the
\* call finds it.
handle_job_completion(r, success, st, fq) ==
    IF success
    THEN /\ jobs' = [jobs EXCEPT ![r].status = "completed"]
         /\ processed_jobs' = processed_jobs \cup {jobs[r].filename}
         /\ stats' = update_r2_job_status(notify_job_completed(st, r), r)
         /\ failed_jobs_queue' = fq
    ELSE /\ jobs' = [jobs EXCEPT ![r].status = "failed"]
         /\ IF jobs[r].attempts < max_attempts
            THEN /\ failed_jobs_queue' = enqueue(fq, r)
                 /\ stats' = [st EXCEPT ![r].retries = @ + 1]
                 /\ UNCHANGED processed_jobs
            ELSE /\ stats' = notify_job_failed(st, r)
                 /\ processed_jobs' = processed_jobs \ {jobs[r].filename}
                 /\ failed_jobs_queue' = fq

\* ------------------------------------------------------------- dispatching
\* process_single_job_async that re-queues every job it finds no printer for
\* into the normal queue.
process_single_job_async_requeue_normal(r, priority, pq, fq, hw_ok, submit_ok) ==
    LET printer_name == get_available_printer(hw_ok) IN
    IF printer_name = None
    THEN /\ failed_jobs_queue' = fq
         /\ print_queue' = enqueue(pq, r)
         /\ UNCHANGED <<jobs, printer_status, printer_jobs, running, stats,
                        processed_jobs>>
    ELSE LET registry == RegistryAfterProbe(printer_name) IN
         /\ print_queue' = pq
         /\ printer_status' = set_printer_busy(registry, printer_name)
         /\ printer_jobs' = IF registry[printer_name] # None
                            THEN [printer_jobs EXCEPT ![printer_name] = r]
                            ELSE printer_jobs
         /\ IF submit_ok
            THEN /\ failed_jobs_queue' = fq
                 /\ jobs' = [jobs EXCEPT ![r].status = "processing"]
                 /\ running' = running \cup {[rec |-> r, printer |-> printer_name,
                                              priority |-> priority]}
                 /\ UNCHANGED <<stats, processed_jobs>>
            ELSE /\ stats[r].fails < MaxFails
                 /\ handle_job_completion(r, FALSE,
                        [stats EXCEPT ![r].fails = @ + 1], fq)
                 /\ UNCHANGED running

\* process_single_job_async(job_node, priority), entered with the job already
\* taken out of its queue: pq and fq are the queues after the dequeue.
\* submit_ok says whether executor.submit returned a future; when it raises,
\* the except branch runs handle_job_completion(job_node, False, priority).
process_single_job_async(r, priority, pq, fq, hw_ok, submit_ok) ==
    LET printer_name == get_available_printer(hw_ok) IN
    IF printer_name = None
    THEN /\ failed_jobs_queue' = IF priority THEN enqueue(fq, r) ELSE fq
         /\ print_queue' = IF priority THEN pq ELSE enqueue(pq, r)
         /\ UNCHANGED <<jobs, printer_status, printer_jobs, running, stats,
                        processed_jobs>>
    ELSE LET registry == RegistryAfterProbe(printer_name) IN
         /\ print_queue' = pq
         /\ printer_status' = set_printer_busy(registry, printer_name)
         /\ printer_jobs' = IF registry[printer_name] # None
                            THEN [printer_jobs EXCEPT ![printer_name] = r]
                            ELSE printer_jobs
         /\ IF submit_ok
            THEN /\ failed_jobs_queue' = fq
                 /\ jobs' = [jobs EXCEPT ![r].status = "processing"]
                 /\ running' = running \cup {[rec |-> r, printer |-> printer_name,
                                              priority |-> priority]}
                 /\ UNCHANGED <<stats, processed_jobs>>
            ELSE /\ stats[r].fails < MaxFails
                 /\ handle_job_completion(r, FALSE,
                        [stats EXCEPT ![r].fails = @ + 1], fq)
                 /\ UNCHANGED running

\* process_print_queue, first statement: self.queue_processor_running = True
ProcessorStart(t) ==
    /\ pc[t] = "start"
    /\ queue_processor_running' = TRUE
    /\ pc' = [pc EXCEPT ![t] = "while"]
    /\ handled_msg' = NoMsg
    /\ UNCHANGED <<queue_vars, caller_vars, side_vars>>
    /\ UNCHANGED <<jobs, print_queue, failed_jobs_queue, processed_jobs,
                   printer_status, printer_jobs, ws_connected, running,
                   releasing, stats>>

\* while self.is_running and (not print_queue.is_empty() or not failed_jobs_queue.is_empty())
ProcessorWhile(t) ==
    /\ pc[t] = "while"
    /\ pc' = [pc EXCEPT ![t] =
                IF ~is_empty(print_queue) \/ ~is_empty(failed_jobs_queue)
                THEN "if_failed" ELSE "finally"]
    /\ handled_msg' = NoMsg
    /\ UNCHANGED <<queue_vars, caller_vars, side_vars>>
    /\ UNCHANGED <<jobs, print_queue, failed_jobs_queue, processed_jobs,
                   printer_status, printer_jobs, ws_connected,
                   queue_processor_running, running, releasing, stats>>

\* The loop body with its two tests in the other order: the normal queue is
\* looked at first.
ProcessorIfFailed_normal_first(t, hw_ok, submit_ok) ==
    /\ pc[t] = "if_failed"
    /\ IF ~is_empty(failed_jobs_queue) /\ is_empty(print_queue)
       THEN /\ process_single_job_async(dequeue_result(failed_jobs_queue), TRUE,
                                        print_queue, dequeue_rest(failed_jobs_queue),
                                        hw_ok, submit_ok)
            /\ pc' = [pc EXCEPT ![t] = "while"]
       ELSE /\ pc' = [pc EXCEPT ![t] = "elif_normal"]
            /\ UNCHANGED <<jobs, print_queue, failed_jobs_queue, printer_status,
                           printer_jobs, running, stats, processed_jobs>>
    /\ handled_msg' = NoMsg
    /\ UNCHANGED <<queue_vars, caller_vars, side_vars>>
    /\ UNCHANGED <<ws_connected, queue_processor_running, releasing>>

\* if not self.failed_jobs_queue.is_empty(): dequeue it and dispatch with
\* priority=True; otherwise fall through to the elif.
ProcessorIfFailed(t, hw_ok, submit_ok) ==
    /\ pc[t] = "if_failed"
    /\ IF ~is_empty(failed_jobs_queue)
       THEN /\ process_single_job_async(dequeue_result(failed_jobs_queue), TRUE,
                                        print_queue, dequeue_rest(failed_jobs_queue),
                                        hw_ok, submit_ok)
            /\ pc' = [pc EXCEPT ![t] = "while"]
       ELSE /\ pc' = [pc EXCEPT ![t] = "elif_normal"]
            /\ UNCHANGED <<jobs, print_queue, failed_jobs_queue, printer_status,
                           printer_jobs, running, stats, processed_jobs>>
    /\ handled_msg' = NoMsg
    /\ UNCHANGED <<queue_vars, caller_vars, side_vars>>
    /\ UNCHANGED <<ws_connected, queue_processor_running, releasing>>

\* elif not self.print_queue.is_empty(): dequeue it and dispatch; then sleep
\* and go round the loop.
ProcessorElifNormal(t, hw_ok, submit_ok) ==
    /\ pc[t] = "elif_normal"
    /\ IF ~is_empty(print_queue)
       THEN process_single_job_async(dequeue_result(print_queue), FALSE,
                                     dequeue_rest(print_queue), failed_jobs_queue,
                                     hw_ok, submit_ok)
       ELSE UNCHANGED <<jobs, print_queue, failed_jobs_queue, printer_status,
                        printer_jobs, running, stats, processed_jobs>>
    /\ pc' = [pc EXCEPT ![t] = "while"]
    /\ handled_msg' = NoMsg
    /\ UNCHANGED <<queue_vars, caller_vars, side_vars>>
    /\ UNCHANGED <<ws_connected, queue_processor_running, releasing>>

\* finally: self.queue_processor_running = False
ProcessorFinally(t) ==
    /\ pc[t] = "finally"
    /\ queue_processor_running' = FALSE
    /\ pc' = [pc EXCEPT ![t] = "none"]
    /\ handled_msg' = NoMsg
    /\ UNCHANGED <<queue_vars, caller_vars, side_vars>>
    /\ UNCHANGED <<jobs, print_queue, failed_jobs_queue, processed_jobs,
                   printer_status, printer_jobs, ws_connected, running,
                   releasing, stats>>

\* ------------------------------------------------------------- worker pool
\* process_job_with_printer returns success (download and print worked) or
\* not; on_job_complete then runs handle_job_completion.
on_job_complete(e, success) ==
    /\ e \in running
    /\ success \/ stats[e.rec].fails < MaxFails
    /\ handle_job_completion(e.rec, success,
          IF success THEN stats ELSE [stats EXCEPT ![e.rec].fails = @ + 1],
          failed_jobs_queue)
    /\ running' = running \ {e}
    /\ releasing' = releasing \cup {e.printer}
    /\ handled_msg' = NoMsg
    /\ UNCHANGED <<queue_vars, caller_vars, side_vars>>
    /\ UNCHANGED <<print_queue, printer_status, printer_jobs, ws_connected,
                   queue_processor_running, pc>>

\* on_job_complete, finally: set_printer_idle(printer_name). It runs after
\* handle_job_completion returned (after its one-second pause for a priority
\* job), so the job may have been dispatched again in between. Pending
\* releases of one printer are kept once: set_printer_idle is idempotent.
on_job_complete_finally(p) ==
    /\ p \in releasing
    /\ printer_status' = set_printer_idle(printer_status, p)
    /\ printer_jobs' = IF printer_status[p] # None
                       THEN [printer_jobs EXCEPT ![p] = 0]
                       ELSE printer_jobs
    /\ releasing' = releasing \ {p}
    /\ handled_msg' = NoMsg
    /\ UNCHANGED <<queue_vars, caller_vars, side_vars>>
    /\ UNCHANGED <<jobs, print_queue, failed_jobs_queue, processed_jobs,
                   ws_connected, queue_processor_running, pc, running, stats>>

\* ------------------------------------------------------------- environment
\* The live channel opens.
ChannelUp ==
    /\ ~ws_connected
    /\ ws_connected' = TRUE
    /\ handled_msg' = NoMsg
    /\ UNCHANGED <<queue_vars, caller_vars, side_vars>>
    /\ UNCHANGED <<jobs, print_queue, failed_jobs_queue, processed_jobs,
                   printer_status, printer_jobs,
                   queue_processor_running, pc, running, releasing, stats>>

\* The live channel closes.
ChannelDown ==
    /\ ws_connected
    /\ ws_connected' = FALSE
    /\ handled_msg' = NoMsg
    /\ UNCHANGED <<queue_vars, caller_vars, side_vars>>
    /\ UNCHANGED <<jobs, print_queue, failed_jobs_queue, processed_jobs,
                   printer_status, printer_jobs,
                   queue_processor_running, pc, running, releasing, stats>>

Executions == [rec : 1..MaxRecords, printer : Printers, priority : BOOLEAN]

Receive == \E m \in Messages : ws_connected /\ on_message(m)
Dispatch ==
    \E t \in Threads :
        \/ ProcessorStart(t)
        \/ ProcessorWhile(t)
        \/ \E hw_ok \in Probes, submit_ok \in BOOLEAN :
              ProcessorIfFailed(t, hw_ok, submit_ok)
        \/ \E hw_ok \in Probes, submit_ok \in BOOLEAN :
              ProcessorElifNormal(t, hw_ok, submit_ok)
        \/ ProcessorFinally(t)
Work ==
    \/ \E e \in running : \E success \in BOOLEAN : on_job_complete(e, success)
    \/ \E p \in releasing : on_job_complete_finally(p)
Environment ==
    \/ ChannelUp
    \/ ChannelDown

Next == Receive \/ Dispatch \/ Work \/ Environment

\* The WebSocket thread alone, receiving whatever the channel delivers; of
\* the dispatcher only its first statement is taken.
IngestNext ==
    \/ \E m \in InboundMessages : ws_connected /\ on_message(m)
    \/ \E t \in Threads : ProcessorStart(t)
    \/ ChannelUp
    \/ ChannelDown

IngestSpec == Init /\ [][IngestNext]_vars

Spec == Init /\ [][Next]_vars

TypeOK ==
    /\ Len(jobs) <= MaxRecords
    /\ Len(stats) = Len(jobs)
    /\ \A r \in Recs : jobs[r].status \in {"pending", "processing", "completed", "failed"}
    /\ processed_jobs \subseteq Filenames
    /\ running \subseteq Executions
    /\ releasing \subseteq Printers

\* ------------------------------------------- PrintJobQueue, the linked list
\* get_all_jobs: the nodes reached from head along next_node. The walk is cut
\* after more steps than there are nodes (a walk that long never ends in
\* the program).
RECURSIVE Walk(_, _, _)
Walk(nxt, n, fuel) ==
    IF n = 0 \/ fuel = 0 THEN <<>>
    ELSE <<n>> \o Walk(nxt, nxt[n], fuel - 1)

get_all_jobs == Walk(next_node, q_head, MaxNodes + 1)

\* enqueue that links the new node in front of the head.
PrintJobQueue_enqueue_at_head(job_node) ==
    /\ IF q_tail = 0
       THEN /\ q_head' = job_node
            /\ q_tail' = job_node
            /\ UNCHANGED next_node
       ELSE /\ next_node' = [next_node EXCEPT ![job_node] = q_head]
            /\ q_head' = job_node
            /\ UNCHANGED q_tail
    /\ q_size' = q_size + 1

\* enqueue(job_node)
PrintJobQueue_enqueue(job_node) ==
    /\ IF q_tail = 0
       THEN /\ q_head' = job_node
            /\ q_tail' = job_node
            /\ UNCHANGED next_node
       ELSE /\ next_node' = [next_node EXCEPT ![q_tail] = job_node]
            /\ q_tail' = job_node
            /\ UNCHANGED q_head
    /\ q_size' = q_size + 1

\* dequeue(): what it returns (0 for None) and what it does to the list.
PrintJobQueue_dequeue_result == q_head

PrintJobQueue_dequeue ==
    IF q_head = 0
    THEN UNCHANGED <<q_head, q_tail, q_size, next_node>>
    ELSE /\ q_head' = next_node[q_head]
         /\ q_tail' = IF next_node[q_head] = 0 THEN 0 ELSE q_tail
         /\ next_node' = [next_node EXCEPT ![q_head] = 0]
         /\ q_size' = q_size - 1

\* peek()
PrintJobQueue_peek == q_head

\* The search loop of remove_by_filename from node current on: the node whose
\* successor carries the filename, 0 when the walk ends without one.
RECURSIVE SearchFrom(_, _, _)
SearchFrom(filename, current, fuel) ==
    IF next_node[current] = 0 \/ fuel = 0 THEN 0
    ELSE IF node_filename(next_node[current]) = filename THEN current
    ELSE SearchFrom(filename, next_node[current], fuel - 1)

\* remove_by_filename that goes straight to the search loop, without the test
\* of the head node.
PrintJobQueue_remove_by_filename_skipping_head(filename, found) ==
    IF q_head = 0
    THEN /\ found = FALSE
         /\ UNCHANGED <<q_head, q_tail, q_size, next_node>>
    ELSE LET current == SearchFrom(filename, q_head, MaxNodes) IN
         IF current = 0
         THEN /\ found = FALSE
              /\ UNCHANGED <<q_head, q_tail, q_size, next_node>>
         ELSE /\ found = TRUE
              /\ next_node' = [next_node EXCEPT
                                  ![current] = next_node[next_node[current]]]
              /\ q_tail' = IF next_node[next_node[current]] = 0
                            THEN current ELSE q_tail
              /\ q_size' = q_size - 1
              /\ UNCHANGED q_head

\* remove_by_filename(filename), returning found.
PrintJobQueue_remove_by_filename(filename, found) ==
    IF q_head = 0
    THEN /\ found = FALSE
         /\ UNCHANGED <<q_head, q_tail, q_size, next_node>>
    ELSE IF node_filename(q_head) = filename
    THEN /\ found = TRUE
         /\ q_head' = next_node[q_head]
         /\ q_tail' = IF next_node[q_head] = 0 THEN 0 ELSE q_tail
         /\ q_size' = q_size - 1
         /\ UNCHANGED next_node
    ELSE LET current == SearchFrom(filename, q_head, MaxNodes) IN
         IF current = 0
         THEN /\ found = FALSE
              /\ UNCHANGED <<q_head, q_tail, q_size, next_node>>
         ELSE /\ found = TRUE
              /\ next_node' = [next_node EXCEPT
                                  ![current] = next_node[next_node[current]]]
              /\ q_tail' = IF next_node[next_node[current]] = 0
                            THEN current ELSE q_tail
              /\ q_size' = q_size - 1
              /\ UNCHANGED q_head

\* A caller enqueues a node it holds.
CallEnqueue(job_node) ==
    /\ job_node \in held
    /\ Len(enq_log) < MaxEnqueues
    /\ PrintJobQueue_enqueue(job_node)
    /\ held' = held \ {job_node}
    /\ enq_log' = Append(enq_log, job_node)
    /\ q_call' = [NoCall EXCEPT !.op = "enqueue", !.node = job_node]
    /\ UNCHANGED <<deq_log, agent_vars, side_vars, caller_vars>>

\* A caller dequeues and holds what it got. (A list with a cycle can be
\* dequeued from for ever, its size falling below 0: the calls are followed
\* down to size -MaxNodes.)
CallDequeue ==
    /\ q_size > -MaxNodes
    /\ PrintJobQueue_dequeue
    /\ held' = held \cup ({PrintJobQueue_dequeue_result} \ {0})
    /\ deq_log' = IF PrintJobQueue_dequeue_result = 0 THEN deq_log
                  ELSE Append(deq_log, PrintJobQueue_dequeue_result)
    /\ q_call' = [NoCall EXCEPT !.op = "dequeue", !.node = PrintJobQueue_dequeue_result]
    /\ UNCHANGED <<enq_log, agent_vars, side_vars, caller_vars>>

CallPeek ==
    /\ q_call' = [NoCall EXCEPT !.op = "peek", !.node = PrintJobQueue_peek]
    /\ UNCHANGED <<q_head, q_tail, q_size, next_node, held, enq_log, deq_log,
                   agent_vars, side_vars, caller_vars>>

\* A caller removes by filename; the node taken out is held by nobody.
CallRemove(filename) ==
    /\ q_size > -MaxNodes
    /\ \E found \in BOOLEAN :
          /\ PrintJobQueue_remove_by_filename(filename, found)
          /\ q_call' = [NoCall EXCEPT !.op = "remove_by_filename",
                                      !.filename = filename, !.found = found]
    /\ UNCHANGED <<held, enq_log, deq_log, agent_vars, side_vars, caller_vars>>

\* Calls of enqueue and dequeue only.
FifoNext ==
    \/ \E job_node \in Nodes : CallEnqueue(job_node)
    \/ CallDequeue

FifoSpec == Init /\ [][FifoNext]_vars

\* Calls of every operation of the queue, one after the other.
QueueNext ==
    \/ \E job_node \in Nodes : CallEnqueue(job_node)
    \/ CallDequeue
    \/ CallPeek
    \/ \E filename \in Filenames : CallRemove(filename)

QueueSpec == Init /\ [][QueueNext]_vars

\* A caller enqueues again a node that remove_by_filename took out of the
\* list: nobody holds it and the list does not reach it. The caller kept the
\* reference it enqueued, or got it from peek() or get_all_jobs().
CallReenqueue(job_node) ==
    /\ job_node \notin held
    /\ \A i \in 1..Len(get_all_jobs) : get_all_jobs[i] # job_node
    /\ Len(enq_log) < MaxEnqueues
    /\ PrintJobQueue_enqueue(job_node)
    /\ enq_log' = Append(enq_log, job_node)
    /\ q_call' = [NoCall EXCEPT !.op = "enqueue", !.node = job_node]
    /\ UNCHANGED <<held, deq_log, agent_vars, side_vars, caller_vars>>

\* Calls of every operation of the queue, enqueue of removed nodes included.
RequeueNext ==
    \/ \E job_node \in Nodes : CallEnqueue(job_node)
    \/ \E job_node \in Nodes : CallReenqueue(job_node)
    \/ CallDequeue
    \/ CallPeek
    \/ \E filename \in Filenames : CallRemove(filename)

RequeueSpec == Init /\ [][RequeueNext]_vars

\* ------------------------------------- PrintJobQueue under several threads
\* The operations statement by statement, each thread at its own position.
\* A thread starts an enqueue with a node it holds.
BeginEnqueue(c, job_node) ==
    /\ callers[c].pc = "idle"
    /\ job_node \in held
    /\ Len(enq_log) < MaxEnqueues
    /\ held' = held \ {job_node}
    /\ enq_log' = Append(enq_log, job_node)
    /\ callers' = [callers EXCEPT ![c] =
                      [Idle EXCEPT !.pc = "with_lock", !.op = "enqueue", !.node = job_node]]
    /\ UNCHANGED <<q_head, q_tail, q_size, next_node, deq_log, q_call, lock,
                   ref_queue, agent_vars, side_vars>>

BeginDequeue(c) ==
    /\ callers[c].pc = "idle"
    /\ callers' = [callers EXCEPT ![c] =
                      [Idle EXCEPT !.pc = "with_lock", !.op = "dequeue"]]
    /\ UNCHANGED <<queue_vars, lock, ref_queue, agent_vars, side_vars>>

BeginRemove(c, filename) ==
    /\ callers[c].pc = "idle"
    /\ callers' = [callers EXCEPT ![c] =
                      [Idle EXCEPT !.pc = "with_lock", !.op = "remove_by_filename",
                                   !.filename = filename]]
    /\ UNCHANGED <<queue_vars, lock, ref_queue, agent_vars, side_vars>>

\* "with self.lock:" that lets the thread in whoever owns the lock.
Acquire_without_waiting(c) ==
    /\ callers[c].pc = "with_lock"
    /\ lock' = c
    /\ callers' = [callers EXCEPT ![c].pc = callers[c].op]
    /\ UNCHANGED <<queue_vars, ref_queue, agent_vars, side_vars>>

\* "with self.lock:" the thread gets the lock when no other thread owns it.
Acquire(c) ==
    /\ callers[c].pc = "with_lock"
    /\ lock = 0
    /\ lock' = c
    /\ callers' = [callers EXCEPT ![c].pc = callers[c].op]
    /\ UNCHANGED <<queue_vars, ref_queue, agent_vars, side_vars>>

\* enqueue: if self.tail is None: self.head = self.tail = job_node
\*          else: self.tail.next_node = job_node
EnqueueLink(c) ==
    /\ callers[c].pc = "enqueue"
    /\ IF q_tail = 0
       THEN /\ q_head' = callers[c].node
            /\ q_tail' = callers[c].node
            /\ callers' = [callers EXCEPT ![c].pc = "size_read"]
            /\ UNCHANGED next_node
       ELSE /\ next_node' = [next_node EXCEPT ![q_tail] = callers[c].node]
            /\ callers' = [callers EXCEPT ![c].pc = "enqueue_tail"]
            /\ UNCHANGED <<q_head, q_tail>>
    /\ UNCHANGED <<q_size, held, enq_log, deq_log, q_call, lock, ref_queue, agent_vars, side_vars>>

\* enqueue: self.tail = job_node
EnqueueTail(c) ==
    /\ callers[c].pc = "enqueue_tail"
    /\ q_tail' = callers[c].node
    /\ callers' = [callers EXCEPT ![c].pc = "size_read"]
    /\ UNCHANGED <<q_head, q_size, next_node, held, enq_log, deq_log, q_call,
                   lock, ref_queue, agent_vars, side_vars>>

\* dequeue: if self.head is None: return None
\*          job_node = self.head; self.head = self.head.next_node
DequeueHead(c) ==
    /\ callers[c].pc = "dequeue"
    /\ IF q_head = 0
       THEN /\ callers' = [callers EXCEPT ![c].pc = "release", ![c].node = 0]
            /\ UNCHANGED q_head
       ELSE /\ callers' = [callers EXCEPT ![c].pc = "dequeue_tail", ![c].node = q_head]
            /\ q_head' = next_node[q_head]
    /\ UNCHANGED <<q_tail, q_size, next_node, held, enq_log, deq_log, q_call,
                   lock, ref_queue, agent_vars, side_vars>>

\* dequeue: if self.head is None: self.tail = None
DequeueTail(c) ==
    /\ callers[c].pc = "dequeue_tail"
    /\ q_tail' = IF q_head = 0 THEN 0 ELSE q_tail
    /\ callers' = [callers EXCEPT ![c].pc = "dequeue_clear"]
    /\ UNCHANGED <<q_head, q_size, next_node, held, enq_log, deq_log, q_call,
                   lock, ref_queue, agent_vars, side_vars>>

\* dequeue: job_node.next_node = None
DequeueClear(c) ==
    /\ callers[c].pc = "dequeue_clear"
    /\ next_node' = [next_node EXCEPT ![callers[c].node] = 0]
    /\ callers' = [callers EXCEPT ![c].pc = "size_read"]
    /\ UNCHANGED <<q_head, q_tail, q_size, held, enq_log, deq_log, q_call,
                   lock, ref_queue, agent_vars, side_vars>>

\* self.size += 1 and self.size -= 1: the read of self.size ...
SizeRead(c) ==
    /\ callers[c].pc = "size_read"
    /\ callers' = [callers EXCEPT ![c].pc = "size_write", ![c].size_read = q_size]
    /\ UNCHANGED <<queue_vars, lock, ref_queue, agent_vars, side_vars>>

\* ... and the write of the new value.
SizeWrite(c) ==
    /\ callers[c].pc = "size_write"
    /\ q_size' = IF callers[c].op = "enqueue" THEN callers[c].size_read + 1
                 ELSE callers[c].size_read - 1
    /\ callers' = [callers EXCEPT ![c].pc = "release", ![c].size_read = 0]
    /\ UNCHANGED <<q_head, q_tail, next_node, held, enq_log, deq_log, q_call,
                   lock, ref_queue, agent_vars, side_vars>>

\* remove_by_filename: its body, in one step.
RemoveBody(c) ==
    /\ callers[c].pc = "remove_by_filename"
    /\ \E found \in BOOLEAN :
          /\ PrintJobQueue_remove_by_filename(callers[c].filename, found)
          /\ callers' = [callers EXCEPT ![c].pc = "release", ![c].found = found]
    /\ UNCHANGED <<held, enq_log, deq_log, q_call, lock, ref_queue, agent_vars, side_vars>>

\* The queue a sequence s becomes when the call of thread c is applied to it.
Applied(s, c) ==
    CASE callers[c].op = "enqueue" -> Append(s, callers[c].node)
      [] callers[c].op = "dequeue" -> IF s = <<>> THEN s ELSE Tail(s)
      [] callers[c].op = "remove_by_filename" ->
            IF \E i \in 1..Len(s) : node_filename(s[i]) = callers[c].filename
            THEN LET i == CHOOSE i \in 1..Len(s) :
                            /\ node_filename(s[i]) = callers[c].filename
                            /\ \A k \in 1..(i - 1) :
                                   node_filename(s[k]) # callers[c].filename
                 IN [k \in 1..(Len(s) - 1) |-> IF k < i THEN s[k] ELSE s[k + 1]]
            ELSE s

\* The with block is left: the lock is released and the call returns.
Release(c) ==
    /\ callers[c].pc = "release"
    /\ lock' = 0
    /\ ref_queue' = Applied(ref_queue, c)
    /\ held' = IF callers[c].op = "dequeue" THEN held \cup ({callers[c].node} \ {0})
               ELSE held
    /\ deq_log' = IF callers[c].op = "dequeue" /\ callers[c].node # 0
                  THEN Append(deq_log, callers[c].node) ELSE deq_log
    /\ q_call' = [op |-> callers[c].op, filename |-> callers[c].filename,
                  node |-> callers[c].node, found |-> callers[c].found]
    /\ callers' = [callers EXCEPT ![c] = Idle]
    /\ UNCHANGED <<q_head, q_tail, q_size, next_node, enq_log, agent_vars, side_vars>>

ThreadsNext ==
    \E c \in Callers :
        \/ \E job_node \in Nodes : BeginEnqueue(c, job_node)
        \/ BeginDequeue(c)
        \/ \E filename \in Filenames : BeginRemove(c, filename)
        \/ Acquire(c)
        \/ EnqueueLink(c)
        \/ EnqueueTail(c)
        \/ DequeueHead(c)
        \/ DequeueTail(c)
        \/ DequeueClear(c)
        \/ SizeRead(c)
        \/ SizeWrite(c)
        \/ RemoveBody(c)
        \/ Release(c)

ThreadsSpec == Init /\ [][ThreadsNext]_vars

\* -------------------------------------------------------- checkpoint files
\* The four checkpoint functions of the client, called one after the other on
\* the files of one job, while the clock advances.  Writing and removing a
\* file are taken to succeed.

\* json.dump and json.load of a print_settings dict.
json_dump_settings(d) ==
    [copies |-> <<"number", d.copies>>, color |-> <<"string", d.color>>]

json_load_settings(j) == [copies |-> j.copies[2], color |-> j.color[2]]

\* checkpoint_data.get('print_settings', {}) on the loaded text.
get_print_settings(text) ==
    IF "print_settings" \in DOMAIN text
    THEN json_load_settings(text.print_settings[2])
    ELSE EmptyDict

\* time.time() - os.path.getmtime(checkpoint_file), in seconds.
Age(filename) == (clock - files[filename].checkpoint.mtime) * TickSeconds

_create_job_checkpoint(filename, completed_copies) ==
    /\ files' = [files EXCEPT ![filename].checkpoint =
                    [exists |-> TRUE, mtime |-> clock,
                     text |-> [completed_copies |-> <<"number", completed_copies>>]]]
    /\ ck_call' = [NoCheckpointCall EXCEPT !.op = "create", !.filename = filename,
                                           !.completed_copies = completed_copies]
    /\ UNCHANGED clock

_save_job_checkpoint(filename, completed_copies, document_data, print_settings) ==
    /\ files' = [files EXCEPT ![filename] =
                    [data |-> document_data,
                     checkpoint |->
                        [exists |-> TRUE, mtime |-> clock,
                         text |-> [completed_copies |-> <<"number", completed_copies>>,
                                   print_settings |->
                                       <<"object", json_dump_settings(print_settings)>>]]]]
    /\ ck_call' = [NoCheckpointCall EXCEPT !.op = "save", !.filename = filename,
                                           !.completed_copies = completed_copies,
                                           !.document_data = document_data,
                                           !.print_settings = print_settings]
    /\ UNCHANGED clock

resume_checkpoint_without_payload(filename) ==
    IF /\ files[filename].checkpoint.exists
       /\ Age(filename) < StaleAfterSeconds
    THEN [resumable |-> TRUE,
          document_data |-> files[filename].data,
          print_settings |-> get_print_settings(files[filename].checkpoint.text),
          completed_copies |-> files[filename].checkpoint.text.completed_copies[2]]
    ELSE NoResume

\* The value _check_resume_checkpoint returns.
resume_checkpoint(filename) ==
    IF /\ files[filename].checkpoint.exists
       /\ files[filename].data # None
       /\ Age(filename) < StaleAfterSeconds
    THEN [resumable |-> TRUE,
          document_data |-> files[filename].data,
          print_settings |-> get_print_settings(files[filename].checkpoint.text),
          completed_copies |-> files[filename].checkpoint.text.completed_copies[2]]
    ELSE NoResume

_check_resume_checkpoint(filename) ==
    /\ ck_call' = [NoCheckpointCall EXCEPT !.op = "check", !.filename = filename,
                                           !.result = resume_checkpoint(filename)]
    /\ UNCHANGED <<files, clock>>

_cleanup_job_checkpoint(filename) ==
    /\ files' = [files EXCEPT ![filename] = [checkpoint |-> NoCheckpoint, data |-> None]]
    /\ ck_call' = [NoCheckpointCall EXCEPT !.op = "cleanup", !.filename = filename]
    /\ UNCHANGED clock

\* The job whose checkpoint files the calls are about.
CheckpointedFiles == {"a.pdf"}

CallCreate ==
    /\ \E f \in CheckpointedFiles, cc \in 0..MaxCopies : _create_job_checkpoint(f, cc)
    /\ UNCHANGED <<agent_vars, queue_vars, caller_vars, verify_vars, registry_vars, conn_vars, more_vars>>

CallSave ==
    /\ \E f \in CheckpointedFiles, cc \in 0..MaxCopies, d \in Documents,
          ps \in PrintSettings : _save_job_checkpoint(f, cc, d, ps)
    /\ UNCHANGED <<agent_vars, queue_vars, caller_vars, verify_vars, registry_vars, conn_vars, more_vars>>

CallCheck ==
    /\ \E f \in CheckpointedFiles : _check_resume_checkpoint(f)
    /\ UNCHANGED <<agent_vars, queue_vars, caller_vars, verify_vars, registry_vars, conn_vars, more_vars>>

CallCleanup ==
    /\ \E f \in CheckpointedFiles : _cleanup_job_checkpoint(f)
    /\ UNCHANGED <<agent_vars, queue_vars, caller_vars, verify_vars, registry_vars, conn_vars, more_vars>>

\* Time passes; the call before it is no longer the last thing that happened.
Tick ==
    /\ clock < MaxClock
    /\ clock' = clock + 1
    /\ ck_call' = NoCheckpointCall
    /\ UNCHANGED <<files, agent_vars, queue_vars, caller_vars, verify_vars, registry_vars, conn_vars, more_vars>>

CheckpointNext == CallCreate \/ CallSave \/ CallCheck \/ CallCleanup \/ Tick

CheckpointSpec == Init /\ [][CheckpointNext]_vars

\* ------------------------------------------------ device-queue verification
\* One call of wait_for_job_in_and_out_of_queue, poll by poll.  The device
\* lists and unlists the job on its own once a print has been sent; a poll
\* that raises returns False (raised is an input of the poll).

is_job_in_queue(raised) == spooled /\ ~raised

\* The call begins: appeared = False, retries = 0.
VerifyCall ==
    /\ verify.pc = "idle"
    /\ verify' = [NoVerify EXCEPT !.pc = "while"]
    /\ UNCHANGED <<spooled, agent_vars, queue_vars, caller_vars, checkpoint_vars, registry_vars, conn_vars, more_vars>>

\* while retries < max_retries: print_func(); otherwise the loop is left with
\* appeared False and the call returns False.
VerifyWhile ==
    /\ verify.pc = "while"
    /\ verify' = IF verify.retries < verify_max_retries
                 THEN [verify EXCEPT !.pc = "appear", !.polls = 0, !.sent = @ + 1]
                 ELSE [verify EXCEPT !.pc = "done", !.result = FALSE]
    /\ UNCHANGED <<spooled, agent_vars, queue_vars, caller_vars, checkpoint_vars, registry_vars, conn_vars, more_vars>>

VerifyAppearPoll_without_retry_count(raised) ==
    /\ verify.pc = "appear"
    /\ verify' = IF verify.polls < appear_polls
                 THEN IF is_job_in_queue(raised)
                      THEN [verify EXCEPT !.pc = "leave", !.appeared = TRUE,
                                          !.polls = 0, !.seen = TRUE]
                      ELSE [verify EXCEPT !.polls = @ + 1, !.seen = FALSE]
                 ELSE [verify EXCEPT !.pc = "while"]
    /\ UNCHANGED <<spooled, agent_vars, queue_vars, caller_vars, checkpoint_vars, registry_vars, conn_vars, more_vars>>

\* One iteration of for _ in range(15), and what follows the loop.
VerifyAppearPoll(raised) ==
    /\ verify.pc = "appear"
    /\ verify' = IF verify.polls < appear_polls
                 THEN IF is_job_in_queue(raised)
                      THEN [verify EXCEPT !.pc = "leave", !.appeared = TRUE,
                                          !.polls = 0, !.seen = TRUE]
                      ELSE [verify EXCEPT !.polls = @ + 1, !.seen = FALSE]
                 ELSE [verify EXCEPT !.pc = "while", !.retries = @ + 1]
    /\ UNCHANGED <<spooled, agent_vars, queue_vars, caller_vars, checkpoint_vars, registry_vars, conn_vars, more_vars>>

\* One iteration of for _ in range(60), and what follows the loop.
VerifyLeavePoll(raised) ==
    /\ verify.pc = "leave"
    /\ verify' = IF verify.polls < leave_polls
                 THEN IF ~is_job_in_queue(raised)
                      THEN [verify EXCEPT !.pc = "done", !.result = TRUE,
                                          !.seen = FALSE]
                      ELSE [verify EXCEPT !.polls = @ + 1, !.seen = TRUE]
                 ELSE [verify EXCEPT !.pc = "done", !.result = FALSE]
    /\ UNCHANGED <<spooled, agent_vars, queue_vars, caller_vars, checkpoint_vars, registry_vars, conn_vars, more_vars>>

\* The device takes a sent job into its list, or finishes it and drops it.
DeviceLists ==
    /\ verify.sent > 0
    /\ verify.pc # "done"
    /\ ~spooled
    /\ spooled' = TRUE
    /\ UNCHANGED <<verify, agent_vars, queue_vars, caller_vars, checkpoint_vars, registry_vars, conn_vars, more_vars>>

DeviceDrops ==
    /\ spooled
    /\ verify.pc # "done"
    /\ spooled' = FALSE
    /\ UNCHANGED <<verify, agent_vars, queue_vars, caller_vars, checkpoint_vars, registry_vars, conn_vars, more_vars>>

VerifyPoll ==
    \E raised \in BOOLEAN : VerifyAppearPoll(raised) \/ VerifyLeavePoll(raised)

VerifyNext ==
    VerifyCall \/ VerifyWhile \/ VerifyPoll \/ DeviceLists \/ DeviceDrops

VerifySpec == Init /\ [][VerifyNext]_vars

\* --------------------------------------------------- PrinterManager on its own
\* A PrinterManager constructed with some max_printers and called from
\* outside, one call after the other.

\* The variables of the agent that are not the registry.
agent_rest == <<jobs, print_queue, failed_jobs_queue, processed_jobs, ws_connected,
                queue_processor_running, pc, running, releasing, stats, handled_msg>>

RegistryInit == \E cap \in 0..MaxCapacity : Construct(cap)

CallAddPrinter(p) ==
    /\ printer_status' = add_printer(printer_status, p).printer_status
    /\ printer_jobs' = IF add_printer(printer_status, p).returns
                       THEN [printer_jobs EXCEPT ![p] = 0]
                       ELSE printer_jobs
    /\ reg_call' = [op |-> "add_printer", printer |-> p,
                    returns |-> add_printer(printer_status, p).returns]

CallSetBusy(p, job) ==
    /\ printer_status' = set_printer_busy(printer_status, p)
    /\ printer_jobs' = IF printer_status[p] # None
                       THEN [printer_jobs EXCEPT ![p] = job]
                       ELSE printer_jobs
    /\ reg_call' = [NoRegistryCall EXCEPT !.op = "set_printer_busy", !.printer = p]

CallSetIdle(p) ==
    /\ printer_status' = set_printer_idle(printer_status, p)
    /\ printer_jobs' = IF printer_status[p] # None
                       THEN [printer_jobs EXCEPT ![p] = 0]
                       ELSE printer_jobs
    /\ reg_call' = [NoRegistryCall EXCEPT !.op = "set_printer_idle", !.printer = p]

CallSetError(p) ==
    /\ printer_status' = set_printer_error(printer_status, p)
    /\ printer_jobs' = IF printer_status[p] # None
                       THEN [printer_jobs EXCEPT ![p] = 0]
                       ELSE printer_jobs
    /\ reg_call' = [NoRegistryCall EXCEPT !.op = "set_printer_error", !.printer = p]

RegistryKeeps ==
    UNCHANGED <<capacity, agent_rest, queue_vars, caller_vars, checkpoint_vars,
                verify_vars, conn_vars, more_vars>>

RegistryAdd == (\E p \in Printers : CallAddPrinter(p)) /\ RegistryKeeps

RegistryBusy ==
    (\E p \in Printers, job \in 1..MaxRecords : CallSetBusy(p, job)) /\ RegistryKeeps

RegistryIdle == (\E p \in Printers : CallSetIdle(p)) /\ RegistryKeeps

RegistryError == (\E p \in Printers : CallSetError(p)) /\ RegistryKeeps

RegistryNext == RegistryAdd \/ RegistryBusy \/ RegistryIdle \/ RegistryError

RegistrySpec == RegistryInit /\ [][RegistryNext]_vars

\* ------------------------------------------------------------ the connection
\* run() and the callbacks of the WebSocketApp.  run_forever() blocks while
\* the connection is attempted and held; it ends by returning after the
\* on_close callback (the connection failed or was closed), by raising an
\* exception, or by KeyboardInterrupt.  The normal queue is seen by its size
\* only, which other threads change.

ConnKeeps ==
    UNCHANGED <<agent_vars, queue_vars, caller_vars, checkpoint_vars, verify_vars,
                registry_vars, more_vars>>

\* while self.is_running: connect_websocket(); self.ws.run_forever() begins.
RunConnect ==
    /\ conn.pc = "while"
    /\ conn.is_running
    /\ conn' = [conn EXCEPT !.pc = "run_forever"]
    /\ req' = NoRequest
    /\ UNCHANGED <<loops, queue_size>>
    /\ ConnKeeps

\* The connection is established: on_open starts a job_request_loop thread
\* and sends one request_print_jobs.
on_open ==
    /\ conn.pc = "run_forever"
    /\ ~conn.sock
    /\ loops < MaxLoops
    /\ conn' = [conn EXCEPT !.sock = TRUE]
    /\ loops' = loops + 1
    /\ req' = [by |-> "on_open", sent |-> TRUE]
    /\ UNCHANGED queue_size
    /\ ConnKeeps

on_close_without_delay ==
    /\ conn.pc = "run_forever"
    /\ conn' = [conn EXCEPT !.pc = "while", !.sock = FALSE, !.last = "closed",
                            !.waited = 0]
    /\ req' = NoRequest
    /\ UNCHANGED <<loops, queue_size>>
    /\ ConnKeeps

\* The connection fails or closes: on_close sleeps and calls
\* connect_websocket, run_forever returns and run() goes round its loop.
on_close ==
    /\ conn.pc = "run_forever"
    /\ conn' = [conn EXCEPT !.pc = "while", !.sock = FALSE, !.last = "closed",
                            !.waited = IF conn.is_running THEN close_delay ELSE 0]
    /\ req' = NoRequest
    /\ UNCHANGED <<loops, queue_size>>
    /\ ConnKeeps

\* run_forever (or connect_websocket) raises: the except branch of run().
RunException ==
    /\ conn.pc = "run_forever"
    /\ conn' = [conn EXCEPT !.pc = "while", !.sock = FALSE, !.last = "raised",
                            !.waited = IF conn.is_running THEN retry_delay ELSE 0]
    /\ req' = NoRequest
    /\ UNCHANGED <<loops, queue_size>>
    /\ ConnKeeps

\* KeyboardInterrupt: is_running = False, break, shutdown.
RunInterrupt ==
    /\ conn.pc = "run_forever"
    /\ conn' = [conn EXCEPT !.pc = "shutdown", !.sock = FALSE, !.is_running = FALSE,
                            !.last = "KeyboardInterrupt"]
    /\ req' = NoRequest
    /\ UNCHANGED <<loops, queue_size>>
    /\ ConnKeeps

job_request_loop_always_requesting(send_raises) ==
    /\ loops > 0
    /\ IF conn.is_running /\ conn.sock
       THEN /\ req' = [by |-> "job_request_loop", sent |-> TRUE]
            /\ loops' = IF send_raises THEN loops - 1 ELSE loops
       ELSE /\ req' = NoRequest
            /\ loops' = loops - 1
    /\ UNCHANGED <<conn, queue_size>>
    /\ ConnKeeps

\* One test of the while condition of a job_request_loop thread and, if it
\* holds, one iteration: a request if the queue is short, none otherwise.  A
\* send that raises ends the thread.
job_request_loop(send_raises) ==
    /\ loops > 0
    /\ IF conn.is_running /\ conn.sock
       THEN IF queue_size < queue_full
            THEN /\ req' = [by |-> "job_request_loop", sent |-> TRUE]
                 /\ loops' = IF send_raises THEN loops - 1 ELSE loops
            ELSE /\ req' = [by |-> "job_request_loop", sent |-> FALSE]
                 /\ loops' = loops
       ELSE /\ req' = NoRequest
            /\ loops' = loops - 1
    /\ UNCHANGED <<conn, queue_size>>
    /\ ConnKeeps

LoopStep == \E send_raises \in BOOLEAN : job_request_loop(send_raises)

\* Other threads put jobs into the normal queue and take them out.
QueueGrows ==
    /\ queue_size < MaxQueueSize
    /\ queue_size' = queue_size + 1
    /\ req' = NoRequest
    /\ UNCHANGED <<conn, loops>>
    /\ ConnKeeps

QueueShrinks ==
    /\ queue_size > 0
    /\ queue_size' = queue_size - 1
    /\ req' = NoRequest
    /\ UNCHANGED <<conn, loops>>
    /\ ConnKeeps

ConnNext ==
    \/ RunConnect
    \/ on_open
    \/ on_close
    \/ RunException
    \/ RunInterrupt
    \/ LoopStep
    \/ QueueGrows
    \/ QueueShrinks

ConnSpec == Init /\ [][ConnNext]_vars

\* The thread in run() is scheduled: it does not stay in front of its loop
\* test for ever.
ConnLiveSpec == ConnSpec /\ WF_vars(RunConnect)

\* ------------------------------------------------- the channels of ingestion
\* The token of a job without metadata.token and metadata.job_id:
\* filename.split('.')[0]; and the filename the watcher gives the job of
\* <token>.json: f'{token}.pdf'.
Tokens == {"a", "b"}
token_of(filename) == IF filename = "a.pdf" THEN "a" ELSE "b"
token_filename(token) == IF token = "a" THEN "a.pdf" ELSE "b.pdf"

\* sorted(glob.glob('*.json')), as tokens.
sorted_glob(tokens) == SelectSeq(<<"a", "b">>, LAMBDA t : t \in tokens)

\* What the rest of the model keeps while the channels run.
IntakeKeeps ==
    UNCHANGED <<jobs, print_queue, failed_jobs_queue, printer_status, printer_jobs,
                ws_connected, pc, running, releasing, stats, handled_msg,
                queue_vars, caller_vars, checkpoint_vars, verify_vars,
                registry_vars, conn_vars, simple>>

\* "if not self.queue_processor_running:
\*      threading.Thread(target=self.process_print_queue).start()"
start_queue_processor ==
    IF queue_processor_running THEN loop_threads
    ELSE [loop_threads EXCEPT !.started = @ + 1]

\* The WebSocket thread: handle_new_print_job(job), or
\* handle_multiple_print_jobs([job]), which also marks the filename.
LiveJob(filename, as_batch) ==
    /\ Len(enqueued) < MaxIntake
    /\ filename \notin processed_jobs
    /\ enqueued' = Append(enqueued, [filename |-> filename, via |-> "live"])
    /\ processed_jobs' = IF as_batch THEN processed_jobs \cup {filename}
                         ELSE processed_jobs
    /\ loop_threads' = start_queue_processor
    /\ UNCHANGED <<seen_tokens, job_files, taken, completed, poller, watcher,
                   queue_processor_running>>
    /\ IntakeKeeps

\* save_job_to_local_storage(job) for a job the API lists, up to the write
\* of <token>.json; it returns at once for a token in seen_tokens.
PollerSave(filename) ==
    /\ poller.pc = "idle"
    /\ token_of(filename) \notin seen_tokens
    /\ job_files' = job_files \cup {token_of(filename)}
    /\ poller' = [pc |-> "saved", filename |-> filename]
    /\ UNCHANGED <<seen_tokens, enqueued, taken, completed, watcher, loop_threads,
                   processed_jobs, queue_processor_running>>
    /\ IntakeKeeps

\* self.print_queue.enqueue(job_node)
PollerEnqueue ==
    /\ poller.pc = "saved"
    /\ Len(enqueued) < MaxIntake
    /\ enqueued' = Append(enqueued, [filename |-> poller.filename, via |-> "api"])
    /\ poller' = [poller EXCEPT !.pc = "enqueued"]
    /\ UNCHANGED <<seen_tokens, job_files, taken, completed, watcher, loop_threads,
                   processed_jobs, queue_processor_running>>
    /\ IntakeKeeps

\* self.seen_tokens.add(token)
PollerAdd ==
    /\ poller.pc = "enqueued"
    /\ seen_tokens' = seen_tokens \cup {token_of(poller.filename)}
    /\ poller' = [poller EXCEPT !.pc = "added"]
    /\ UNCHANGED <<job_files, enqueued, taken, completed, watcher, loop_threads,
                   processed_jobs, queue_processor_running>>
    /\ IntakeKeeps

\* The test of the flag and the start of the thread that end the function.
PollerStart ==
    /\ poller.pc = "added"
    /\ loop_threads' = start_queue_processor
    /\ poller' = NoPoller
    /\ UNCHANGED <<seen_tokens, job_files, enqueued, taken, completed, watcher,
                   processed_jobs, queue_processor_running>>
    /\ IntakeKeeps

\* job_directory_watcher: the glob that begins a scan.
WatcherGlob ==
    /\ watcher.pc = "idle"
    /\ job_files # {}
    /\ watcher' = [pc |-> "for", job_files |-> sorted_glob(job_files)]
    /\ UNCHANGED <<seen_tokens, job_files, enqueued, taken, completed, poller,
                   loop_threads, processed_jobs, queue_processor_running>>
    /\ IntakeKeeps

\* The watcher after the round for the first file of its scan.
next_file(w) ==
    [pc |-> IF Len(w.job_files) = 1 THEN "idle" ELSE "for",
     job_files |-> Tail(w.job_files)]

\* One round of the for loop up to the enqueue: a token in seen_tokens is
\* passed over; a file that is gone makes open() raise, which is logged.
WatcherLoad ==
    /\ watcher.pc = "for"
    /\ LET token == Head(watcher.job_files) IN
       IF token \in seen_tokens \/ token \notin job_files
       THEN /\ watcher' = next_file(watcher)
            /\ UNCHANGED enqueued
       ELSE /\ Len(enqueued) < MaxIntake
            /\ enqueued' = Append(enqueued, [filename |-> token_filename(token),
                                             via |-> "dir"])
            /\ watcher' = [watcher EXCEPT !.pc = "enqueued"]
    /\ UNCHANGED <<seen_tokens, job_files, taken, completed, poller, loop_threads,
                   processed_jobs, queue_processor_running>>
    /\ IntakeKeeps

WatcherAdd ==
    /\ watcher.pc = "enqueued"
    /\ seen_tokens' = seen_tokens \cup {Head(watcher.job_files)}
    /\ watcher' = [watcher EXCEPT !.pc = "added"]
    /\ UNCHANGED <<job_files, enqueued, taken, completed, poller, loop_threads,
                   processed_jobs, queue_processor_running>>
    /\ IntakeKeeps

WatcherStart ==
    /\ watcher.pc = "added"
    /\ loop_threads' = start_queue_processor
    /\ watcher' = next_file(watcher)
    /\ UNCHANGED <<seen_tokens, job_files, enqueued, taken, completed, poller,
                   processed_jobs, queue_processor_running>>
    /\ IntakeKeeps

\* A started process_print_queue thread runs its first statement.
LoopStart ==
    /\ loop_threads.started > 0
    /\ loop_threads' = [started |-> loop_threads.started - 1,
                        running |-> loop_threads.running + 1]
    /\ queue_processor_running' = TRUE
    /\ UNCHANGED <<seen_tokens, job_files, enqueued, taken, completed, poller,
                   watcher, processed_jobs>>
    /\ IntakeKeeps

\* A running loop dequeues a job, and process_job_with_printer runs for it:
\* it looks for the job's <token>.json first; after a successful print it
\* removes that file and discards the token.
LoopProcess(print_success) ==
    /\ loop_threads.running > 0
    /\ taken < Len(enqueued)
    /\ taken' = taken + 1
    /\ LET filename == enqueued[taken + 1].filename
           found == token_of(filename) \in job_files IN
       IF print_success
       THEN /\ completed' = completed \cup {filename}
            /\ job_files' = job_files \ {token_of(filename)}
            /\ seen_tokens' = IF found THEN seen_tokens \ {token_of(filename)}
                              ELSE seen_tokens
       ELSE UNCHANGED <<completed, job_files, seen_tokens>>
    /\ UNCHANGED <<enqueued, poller, watcher, loop_threads, processed_jobs,
                   queue_processor_running>>
    /\ IntakeKeeps

\* A running loop finds the queue empty and ends through its finally block.
LoopExit ==
    /\ loop_threads.running > 0
    /\ taken = Len(enqueued)
    /\ loop_threads' = [loop_threads EXCEPT !.running = @ - 1]
    /\ queue_processor_running' = FALSE
    /\ UNCHANGED <<seen_tokens, job_files, enqueued, taken, completed, poller,
                   watcher, processed_jobs>>
    /\ IntakeKeeps

IntakeNext ==
    \/ \E filename \in Filenames, as_batch \in BOOLEAN : LiveJob(filename, as_batch)
    \/ \E filename \in Filenames : PollerSave(filename)
    \/ PollerEnqueue
    \/ PollerAdd
    \/ PollerStart
    \/ WatcherGlob
    \/ WatcherLoad
    \/ WatcherAdd
    \/ WatcherStart
    \/ LoopStart
    \/ \E print_success \in BOOLEAN : LoopProcess(print_success)
    \/ LoopExit

IntakeSpec == Init /\ [][IntakeNext]_vars

\* -------------------------------------------------------- the simple client
\* Job descriptors of a print_jobs_response: a dict with an id and a
\* file_url, which the JSON text may give as null.
SimpleJobs == [id : 1..MaxJobIds, file_url : {"url", None}]
SimpleBatches == UNION {[1..n -> SimpleJobs] : n \in 0..MaxBatch}

\* What the rest of the model keeps while the simple client runs.
SimpleKeeps ==
    UNCHANGED <<agent_vars, queue_vars, caller_vars, checkpoint_vars, verify_vars,
                registry_vars, conn_vars, intake_vars>>

\* notify_job_complete(job_id, success, error_message): the call, and the
\* payload if the socket is connected and the send does not raise.
notify_job_complete(c, job_id, success, error_message, send_raises) ==
    [c EXCEPT !.calls = Append(@, [job_id |-> job_id, success |-> success,
                                   error_message |-> error_message]),
              !.sent = IF c.connected /\ ~send_raises
                       THEN Append(@, [job_id |-> job_id,
                                       status |-> IF success THEN "completed"
                                                  ELSE "failed",
                                       printed_successfully |-> success])
                       ELSE @]

\* process_job(job): the client after the call and whether the call raised.
\* printer_available is what is_printer_available() finds, downloaded whether
\* download_document returns data, print_success what print_document
\* returns. download_document(None) raises a TypeError at file_url[:50],
\* which its "except RequestException" lets through.
process_job(c, job, printer_available, downloaded, print_success, send_raises) ==
    IF ~printer_available
    THEN [client |-> notify_job_complete(
                        [c EXCEPT !.processed = Append(@, [job |-> job, result |-> "no printer"])],
                        job.id, FALSE, "No printer detected on this system", send_raises),
          raised |-> FALSE]
    ELSE IF job.file_url = None
    THEN [client |-> [c EXCEPT !.processed = Append(@, [job |-> job, result |-> "raised"])],
          raised |-> TRUE]
    ELSE IF ~downloaded
    THEN [client |-> notify_job_complete(
                        [c EXCEPT !.processed = Append(@, [job |-> job, result |-> "download failed"])],
                        job.id, FALSE, "Failed to download document", send_raises),
          raised |-> FALSE]
    ELSE IF ~print_success
    THEN [client |-> notify_job_complete(
                        [c EXCEPT !.processed = Append(@, [job |-> job, result |-> "print failed"])],
                        job.id, FALSE, "Printing failed", send_raises),
          raised |-> FALSE]
    ELSE [client |-> notify_job_complete(
                        [c EXCEPT !.processed = Append(@, [job |-> job, result |-> "printed"])],
                        job.id, TRUE, None, send_raises),
          raised |-> FALSE]

\* on_message of the simple client with a print_jobs_response, up to its
\* loop: "if jobs: for job in jobs".
SimpleOnMessage(batch) ==
    /\ simple.pc = "idle"
    /\ simple.connected
    /\ simple' = [NoClient EXCEPT !.jobs = batch,
                                  !.at = 1,
                                  !.pc = IF batch = <<>> THEN "idle" ELSE "for"]
    /\ SimpleKeeps

\* One round of the loop: process_job(job). A call that raises ends the
\* loop in the "except Exception" of on_message.
SimpleProcessJob(printer_available, downloaded, print_success, send_raises) ==
    /\ simple.pc = "for"
    /\ LET r == process_job(simple, simple.jobs[simple.at], printer_available,
                            downloaded, print_success, send_raises) IN
       simple' = IF r.raised \/ simple.at = Len(simple.jobs)
                 THEN [r.client EXCEPT !.pc = "idle"]
                 ELSE [r.client EXCEPT !.at = @ + 1]
    /\ SimpleKeeps

\* The socket closes; run_forever returns and the client makes no other.
SimpleSocketDown ==
    /\ simple.connected
    /\ simple' = [simple EXCEPT !.connected = FALSE]
    /\ SimpleKeeps

SimpleNext ==
    \/ \E batch \in SimpleBatches : SimpleOnMessage(batch)
    \/ \E printer_available, downloaded, print_success, send_raises \in BOOLEAN :
          SimpleProcessJob(printer_available, downloaded, print_success, send_raises)
    \/ SimpleSocketDown

SimpleSpec == Init /\ [][SimpleNext]_vars

\* ------------------------------------------------------------------ claims
InQueue(q, r) == \E i \in 1..Len(q) : q[i] = r
IsRunning(r) == \E e \in running : e.rec = r
RecordsOf(f) == {r \in Recs : jobs[r].filename = f}

\* Executions of record r started so far: the failed attempts, the successful
\* one, the one now in the worker pool.
ExecutionsStarted(r) ==
    stats[r].fails
    + (IF jobs[r].status = "completed" THEN 1 ELSE 0)
    + (IF IsRunning(r) THEN 1 ELSE 0)

\* C1: every job reaches completed or terminally failed after at most
\* max_attempts executions. Stated here as its bound: no record is ever
\* executed more than max_attempts times.
C1_AtMostMaxAttemptsExecutions ==
    \A r \in Recs : ExecutionsStarted(r) <= max_attempts

\* C2: every failed execution increments the job's attempts by one, so after
\* k failed executions attempts = k.
C2_AttemptsCountsFailures ==
    \A r \in Recs : jobs[r].attempts = stats[r].fails

RECURSIVE TerminalNotifications(_, _)
TerminalNotifications(f, n) ==
    IF n = 0 THEN 0
    ELSE (IF jobs[n].filename = f
          THEN stats[n].completed_sent + stats[n].failed_sent ELSE 0)
         + TerminalNotifications(f, n - 1)

\* C3: for every job id at most one terminal-outcome notification
\* (job_completed or job_failed) is ever sent on the live channel.
C3_AtMostOneTerminalNotification ==
    \A f \in Filenames : TerminalNotifications(f, Len(jobs)) <= 1

\* C4: at any moment at most one execution of a given job id is in flight
\* in the worker pool.
C4_OneExecutionPerJobId ==
    \A e1, e2 \in running :
        jobs[e1.rec].filename = jobs[e2.rec].filename => e1 = e2

\* C5: a device has at most one in-flight job, and the registry shows it
\* busy for as long as a job dispatched to it is executing.
C5_DeviceBusyWhileExecuting ==
    /\ \A e1, e2 \in running : e1.printer = e2.printer => e1 = e2
    /\ \A e \in running : printer_status[e.printer] = "busy"

\* C6: get_available_printer only returns a device whose registry state is
\* idle (a device it has just discovered is registered idle): whenever a job
\* is handed to a printer, the registry did not show that printer busy or
\* in error.
C6_OnlyIdleDeviceReturned ==
    [][\A e \in running' \ running :
          printer_status[e.printer] \in {"idle", None}]_vars

\* C7: a job that has failed max_attempts executions is not re-enqueued or
\* executed again, at most one job_failed was sent for it, and its id is out
\* of the handled-id set unless another record carries the same id.
C7_TerminalFailureAfterMaxAttempts ==
    \A r \in Recs :
        stats[r].fails >= max_attempts =>
            /\ ~InQueue(failed_jobs_queue, r)
            /\ ~InQueue(print_queue, r)
            /\ ~IsRunning(r)
            /\ stats[r].failed_sent <= 1
            /\ (RecordsOf(jobs[r].filename) = {r}
                    => jobs[r].filename \notin processed_jobs)

\* C8 as claimed: a job that fails twice and then succeeds has passed through
\* the retry queue exactly twice, is completed with its id in the handled-id
\* set, and exactly one job_completed and no job_failed was sent for it.
C8_ScenarioA_ExactlyOneNotification ==
    \A r \in Recs :
        (jobs[r].status = "completed" /\ stats[r].fails = 2) =>
            /\ stats[r].retries = 2
            /\ jobs[r].filename \in processed_jobs
            /\ stats[r].completed_sent = 1
            /\ stats[r].failed_sent = 0

\* C8 amended: a job that fails twice and then succeeds has passed through
\* the retry queue exactly twice and its id is in the handled-id set; no
\* job_failed is sent for it, and a job_completed is sent exactly once if the
\* live channel is connected at the moment it completes and not at all
\* otherwise. From then on the record and what was sent for it stay as they are.
C8_ScenarioA ==
    [][\A r \in Recs :
          /\ (jobs[r].status # "completed" /\ jobs'[r].status = "completed"
              /\ stats[r].fails = 2) =>
                /\ stats'[r].fails = 2
                /\ stats'[r].retries = 2
                /\ jobs[r].filename \in processed_jobs'
                /\ stats'[r].completed_sent = (IF ws_connected THEN 1 ELSE 0)
                /\ stats'[r].failed_sent = 0
          /\ jobs[r].status = "completed" =>
                /\ jobs'[r] = jobs[r]
                /\ stats'[r] = stats[r]
                /\ jobs[r].filename \in processed_jobs'
                /\ ~InQueue(failed_jobs_queue', r)
                /\ ~InQueue(print_queue', r)]_vars

C8_Witness ==
    \E r \in Recs :
        /\ jobs[r].status = "completed"
        /\ stats[r].fails = 2
        /\ stats[r].retries = 2
        /\ stats[r].completed_sent = 1

\* A normal-queue job leaves the head of print_queue in this step.
NormalDequeued ==
    /\ ~is_empty(print_queue)
    /\ \/ is_empty(print_queue')
       \/ Head(print_queue') # Head(print_queue)

\* C9: when the dispatcher picks a job while both queues are non-empty, it
\* takes the head of the retry queue and leaves the normal queue alone; it
\* turns to the normal queue only on finding the retry queue empty, and only
\* then is a normal-queue job dequeued.
C9_RetryQueueFirst ==
    [][\A t \in Threads :
          /\ (pc[t] = "if_failed" /\ pc'[t] # "if_failed"
              /\ ~is_empty(failed_jobs_queue) /\ ~is_empty(print_queue)) =>
                /\ print_queue' = print_queue
                /\ \/ failed_jobs_queue' = Tail(failed_jobs_queue)
                   \/ failed_jobs_queue' =
                        Append(Tail(failed_jobs_queue), Head(failed_jobs_queue))
          /\ (pc[t] # "elif_normal" /\ pc'[t] = "elif_normal") =>
                is_empty(failed_jobs_queue)
          /\ NormalDequeued => \E u \in Threads : pc[u] = "elif_normal"]_vars

C9_Witness ==
    /\ ~is_empty(print_queue)
    /\ \E e \in running : e.priority /\ stats[e.rec].retries >= 1

\* Ids that have completed successfully and are in the handled-id set.
CompletedIds ==
    {f \in processed_jobs : \E r \in RecordsOf(f) : jobs[r].status = "completed"}

\* C10: receiving a descriptor whose id has completed (and is still in the
\* handled-id set), as a print_job or inside a print_jobs_response, creates no
\* record for it; when every id of the message is such an id, both queues
\* and the handled-id set are left unchanged.
C10_CompletedIngestionIdempotent ==
    [][handled_msg' # NoMsg =>
          /\ \A r \in (Len(jobs) + 1)..Len(jobs') :
                jobs'[r].filename \notin CompletedIds
          /\ SeqRange(handled_msg'.jobs) \subseteq CompletedIds =>
                UNCHANGED <<print_queue, failed_jobs_queue, processed_jobs, jobs>>]_vars

C10_Witness ==
    /\ handled_msg.type = "print_job"
    /\ handled_msg.jobs[1] \in CompletedIds
    /\ ~is_empty(print_queue) \/ ~is_empty(failed_jobs_queue)
    /\ \E r \in RecordsOf(handled_msg.jobs[1]) : stats[r].completed_sent = 1

\* Records that are waiting in a queue or executing.
Live(r) == InQueue(print_queue, r) \/ InQueue(failed_jobs_queue, r) \/ IsRunning(r)

\* C11: a print_job whose id is not in the handled-id set marks the id
\* handled as it is ingested, so that after any print_job the id is in the
\* set, and an id delivered again while its first copy is queued or
\* executing has one record only.
C11_PrintJobMarksIdHandled ==
    /\ handled_msg.type = "print_job" => handled_msg.jobs[1] \in processed_jobs
    /\ \A r1, r2 \in Recs :
          (jobs[r1].filename = jobs[r2].filename /\ Live(r1) /\ Live(r2)) => r1 = r2

\* Positions of record r in queue q.
Positions(q, r) == {i \in 1..Len(q) : q[i] = r}

\* C12: handle_multiple_print_jobs creates, for every id of the batch that
\* was not in the handled-id set, exactly one record however often the id
\* occurs in the batch, puts it into the normal queue once, and marks the id
\* handled; for an id that was in the set it creates none.
C12_BatchEnqueuesOncePerId ==
    [][handled_msg'.type = "print_jobs_response" =>
          \A f \in SeqRange(handled_msg'.jobs) :
              LET created == {r \in (Len(jobs) + 1)..Len(jobs') : jobs'[r].filename = f} IN
              /\ Cardinality(created) = (IF f \in processed_jobs THEN 0 ELSE 1)
              /\ \A r \in created :
                    /\ jobs'[r].status = "pending"
                    /\ Cardinality(Positions(print_queue', r)) = 1
                    /\ ~InQueue(failed_jobs_queue', r)
              /\ f \in processed_jobs']_vars

C12_Witness ==
    /\ handled_msg = [type |-> "print_jobs_response", jobs |-> <<"a.pdf", "a.pdf">>]
    /\ RecordsOf("a.pdf") = {1}
    /\ print_queue = <<1>>
    /\ jobs[1].status = "pending"

\* C13: a job is handed to a device only when no other job is executing on
\* that device (with one device, the second job of scenario C waits until
\* the first is done), and a normal-queue job is dispatched only when no job
\* enqueued before it is still waiting in the normal queue, re-queues for
\* want of a device included.
C13_DispatchInEnqueueOrder ==
    [][\A e \in running' \ running :
          /\ \A e2 \in running : e2.printer # e.printer
          /\ ~e.priority => \A r \in 1..(e.rec - 1) : ~InQueue(print_queue', r)]_vars

\* Thread t takes the head of queue q out in this step: it leaves the test
\* at position at with q non-empty.
TakesHead(t, at, q) == pc[t] = at /\ pc'[t] = "while" /\ ~is_empty(q)

\* Nothing was attempted with record r in this step: no execution of it was
\* started and no attempt of it failed.
NotAttempted(r) ==
    /\ running' = running
    /\ stats'[r].fails = stats[r].fails

\* Everything but the two queues and the thread positions stays as it is.
OnlyQueuesChange ==
    UNCHANGED <<jobs, processed_jobs, printer_status, printer_jobs,
                ws_connected, running, releasing, stats>>

\* C17: when the dispatcher has taken a job out of a queue and no device is
\* available for it, the job goes back to the tail of the queue it came
\* from and the other queue is left alone; its attempts and status, the
\* device registry and what has been sent for any job stay as they were.
C17_RequeueSameQueue ==
    [][\A t \in Threads :
          /\ (TakesHead(t, "if_failed", failed_jobs_queue)
              /\ NotAttempted(Head(failed_jobs_queue))) =>
                /\ failed_jobs_queue' =
                      Append(Tail(failed_jobs_queue), Head(failed_jobs_queue))
                /\ print_queue' = print_queue
                /\ OnlyQueuesChange
          /\ (TakesHead(t, "elif_normal", print_queue)
              /\ NotAttempted(Head(print_queue))) =>
                /\ print_queue' = Append(Tail(print_queue), Head(print_queue))
                /\ failed_jobs_queue' = failed_jobs_queue
                /\ OnlyQueuesChange]_vars

C17_Witness ==
    /\ print_queue = <<2, 1>>
    /\ jobs[1] = PrintJobNode(jobs[1].filename)
    /\ stats[1] = NoStats

\* C18: a device the registry shows busy has a job whose outcome is still to
\* be handled or a release to idle pending; once the outcome of its job is
\* handled and the release is done, the device is not busy.
C18_BusyDeviceIsReleased ==
    \A p \in Printers :
        printer_status[p] = "busy" =>
            \/ \E e \in running : e.printer = p
            \/ p \in releasing

\* C19: a dispatcher loop ends only when both queues are empty and no job is
\* in flight, and a job ingested while no dispatcher thread exists starts
\* one.
C19_LoopEndsWhenNothingInFlight ==
    [][/\ \A t \in Threads :
            (pc[t] = "while" /\ pc'[t] = "finally") =>
                /\ is_empty(print_queue)
                /\ is_empty(failed_jobs_queue)
                /\ running = {}
       /\ (Len(jobs') > Len(jobs) /\ \A t \in Threads : pc[t] = "none") =>
             \E t \in Threads : pc'[t] = "start"]_vars

C14_FifoOrderAndSize ==
    /\ enq_log = deq_log \o get_all_jobs
    /\ (q_call.op = "dequeue" /\ q_call.node = 0) => deq_log = enq_log
    /\ q_size = Len(enq_log) - Len(deq_log)

C14_Witness ==
    /\ Len(deq_log) >= 2
    /\ q_size >= 2
    /\ \E i, j \in 1..Len(enq_log) : i < j /\ enq_log[i] = enq_log[j]
    /\ q_call.op = "dequeue"

\* Sequence s without its i-th element.
WithoutIndex(s, i) == [k \in 1..(Len(s) - 1) |-> IF k < i THEN s[k] ELSE s[k + 1]]

\* Positions of the nodes of s that carry the filename.
Hits(s, filename) == {i \in 1..Len(s) : node_filename(s[i]) = filename}

ListUnchanged == UNCHANGED <<q_head, q_tail, q_size, next_node>>

\* C15: dequeue on an empty queue returns None and leaves the queue as it
\* is; peek returns the head (None on an empty queue) and leaves the queue
\* as it is; remove_by_filename takes out the first node that carries the
\* filename, leaves the other nodes in their order and returns True, and
\* when no node carries it returns False and leaves the queue as it is.
C15_EdgeContracts ==
    [][/\ (q_call'.op = "dequeue" /\ (q_size = 0 \/ get_all_jobs = <<>>)) =>
             /\ q_call'.node = 0
             /\ ListUnchanged
       /\ q_call'.op = "peek" =>
             /\ q_call'.node = (IF get_all_jobs = <<>> THEN 0 ELSE Head(get_all_jobs))
             /\ ListUnchanged
       /\ q_call'.op = "remove_by_filename" =>
             LET hits == Hits(get_all_jobs, q_call'.filename) IN
             IF hits = {}
             THEN /\ ~q_call'.found
                  /\ ListUnchanged
             ELSE /\ q_call'.found
                  /\ get_all_jobs' =
                        WithoutIndex(get_all_jobs,
                                     CHOOSE i \in hits : \A k \in hits : i <= k)
                  /\ q_size' = q_size - 1]_vars

C15_Witness ==
    /\ q_call = [NoCall EXCEPT !.op = "remove_by_filename",
                               !.filename = "a.pdf", !.found = TRUE]
    /\ get_all_jobs = <<2, 3>>
    /\ q_size = 2

\* Occurrences of x in sequence s.
Count(s, x) == Cardinality({i \in 1..Len(s) : s[i] = x})

\* C16: with several threads calling enqueue, dequeue and remove_by_filename,
\* every call takes effect as a whole: each dequeue returns the head of the
\* queue the calls completed before it left (None when that is empty) and
\* each remove_by_filename reports whether that queue held the filename;
\* whenever no call is inside the lock the list holds exactly what the
\* completed calls, applied one after the other, leave, with size and tail
\* to match; no node is in the list twice or held by a caller while in the
\* list, and no node was returned by dequeue more often than it was enqueued.
C16_OperationsAtomic ==
    [][/\ \A c \in Callers :
            (callers[c].pc = "release" /\ callers'[c].pc = "idle") =>
                /\ callers[c].op = "dequeue" =>
                      callers[c].node =
                          (IF ref_queue = <<>> THEN 0 ELSE Head(ref_queue))
                /\ callers[c].op = "remove_by_filename" =>
                      callers[c].found = (Hits(ref_queue, callers[c].filename) # {})
       /\ lock' = 0 =>
            /\ get_all_jobs' = ref_queue'
            /\ q_size' = Len(ref_queue')
            /\ q_tail' = (IF ref_queue' = <<>> THEN 0
                          ELSE ref_queue'[Len(ref_queue')])
            /\ \A n \in Nodes :
                  /\ Count(ref_queue', n) <= 1
                  /\ n \in held' => Count(ref_queue', n) = 0
                  /\ Count(deq_log', n) <= Count(enq_log', n)]_vars

C16_Witness ==
    /\ lock = 1
    /\ callers[1].pc = "dequeue_clear"
    /\ callers[2].pc = "with_lock"
    /\ callers[2].op = "remove_by_filename"
    /\ Len(deq_log) >= 1
    /\ Len(ref_queue) >= 2

\* C21: every job that has completed, and every job that has failed
\* max_attempts times, has had its HTTP status update posted, whatever the
\* state of the live channel was.
C21_TerminalOutcomeConfirmedOverHttp ==
    \A r \in Recs :
        /\ jobs[r].status = "completed" => stats[r].r2_updates = 1
        /\ stats[r].fails >= max_attempts => stats[r].r2_updates >= 1

\* Positions of batch whose id is net-new: not in the handled-id set and not
\* met earlier in the batch.
NetNew(batch) ==
    {i \in 1..Len(batch) :
        /\ batch[i] \notin processed_jobs
        /\ \A k \in 1..(i - 1) : batch[k] # batch[i]}

\* C29: a print_jobs_response without a net-new id leaves the normal queue,
\* the handled-id set and the records created so far (the received counter
\* counts them) as they are and starts no dispatcher; otherwise the records
\* created are those of the net-new ids, appended to the normal queue in batch
\* order, and nothing else is put into a queue.
C29_BatchNetNewOnly ==
    [][handled_msg'.type = "print_jobs_response" =>
          LET batch == handled_msg'.jobs
              created == (Len(jobs) + 1)..Len(jobs') IN
          /\ NetNew(batch) = {} =>
                UNCHANGED <<print_queue, processed_jobs, jobs, stats, pc,
                            queue_processor_running>>
          /\ Cardinality(created) = Cardinality(NetNew(batch))
          /\ \A r \in created :
                Cardinality({i \in NetNew(batch) : i < CHOOSE k \in NetNew(batch) :
                                 batch[k] = jobs'[r].filename}) = r - Len(jobs) - 1
          /\ print_queue' = print_queue \o [i \in 1..Cardinality(created) |-> Len(jobs) + i]
          /\ failed_jobs_queue' = failed_jobs_queue]_vars

C29_Witness ==
    /\ handled_msg = [type |-> "print_jobs_response", jobs |-> <<"b.pdf", "a.pdf">>]
    /\ Len(jobs) = 2
    /\ jobs[1] = PrintJobNode("b.pdf")
    /\ jobs[2] = PrintJobNode("a.pdf")
    /\ print_queue = <<1, 2>>
    /\ processed_jobs = {"a.pdf", "b.pdf"}

\* Messages on_message is to drop.
Malformed(m) ==
    \/ m.type \notin {"none", "print_job", "print_jobs_response",
                     "job_status_updated", "error"}
    \/ \E i \in 1..Len(m.jobs) : m.jobs[i] \in BadDescriptors

\* C24: handling a malformed message (no JSON, unknown type, a descriptor that
\* makes the handling raise) leaves the connection open and changes neither
\* queue, nor the handled-id set, nor the records, nor the device registry.
C24_MalformedMessageDropped ==
    [][Malformed(handled_msg') =>
          UNCHANGED <<print_queue, failed_jobs_queue, processed_jobs, jobs,
                      printer_status, printer_jobs, ws_connected>>]_vars

\* C26: a checkpoint exists for a job from the moment its execution begins in
\* the worker pool, and none remains for a job that completed.
C26_CheckpointWhileExecuting ==
    /\ \A e \in running : files[jobs[e.rec].filename].checkpoint.exists
    /\ \A r \in Recs :
          jobs[r].status = "completed" => ~files[jobs[r].filename].checkpoint.exists

\* C25: _check_resume_checkpoint returns a resume record only if both files
\* exist and the checkpoint is younger than 24 hours, and a checkpoint it
\* finds stale is gone when it returns.
C25_StaleCheckpointNeverResumedAndPurged ==
    ck_call.op = "check" =>
        /\ ck_call.result.resumable =>
              /\ files[ck_call.filename].checkpoint.exists
              /\ files[ck_call.filename].data # None
              /\ Age(ck_call.filename) < StaleAfterSeconds
        /\ ~(/\ files[ck_call.filename].checkpoint.exists
              /\ Age(ck_call.filename) >= StaleAfterSeconds)

\* C30: a check right after a save returns the saved document data, print
\* settings and completed-copies count; a check right after a cleanup returns
\* None; so does a check that finds no payload file.
C30_CheckpointRoundTrip ==
    [][ck_call'.op = "check" =>
          /\ (ck_call.op = "save" /\ ck_call.filename = ck_call'.filename) =>
                ck_call'.result = [resumable |-> TRUE,
                                   document_data |-> ck_call.document_data,
                                   print_settings |-> ck_call.print_settings,
                                   completed_copies |-> ck_call.completed_copies]
          /\ (ck_call.op = "cleanup" /\ ck_call.filename = ck_call'.filename) =>
                ck_call'.result = NoResume
          /\ files[ck_call'.filename].data = None => ck_call'.result = NoResume]_vars

C30_Witness ==
    /\ ck_call.op = "check"
    /\ ck_call.result = [resumable |-> TRUE, document_data |-> "%PDF-2",
                         print_settings |-> [copies |-> 2, color |-> "bw"],
                         completed_copies |-> 1]
    /\ clock = files[ck_call.filename].checkpoint.mtime

\* C27: once the print has been sent, the verification returns failure only
\* if the job was still in the device's list at the last poll of the bounded
\* wait; a job that is not listed, never seen there included, is a success.
C27_AbsenceIsSuccess ==
    (verify.pc = "done" /\ ~verify.result) => (verify.sent > 0 /\ verify.seen)

\* C28: the registry never holds more than max_printers devices; add_printer
\* at capacity returns False and changes nothing; below capacity it returns
\* True and leaves the device idle with no current job and the others as
\* they were.
C28_RegistryBounded ==
    /\ Cardinality(Registered(printer_status)) <= capacity
    /\ [][/\ Cardinality(Registered(printer_status')) <= capacity'
          /\ reg_call'.op = "add_printer" =>
                IF Cardinality(Registered(printer_status)) >= capacity
                THEN /\ ~reg_call'.returns
                     /\ UNCHANGED <<printer_status, printer_jobs>>
                ELSE /\ reg_call'.returns
                     /\ printer_status'[reg_call'.printer] = "idle"
                     /\ printer_jobs'[reg_call'.printer] = 0
                     /\ \A q \in Printers \ {reg_call'.printer} :
                           /\ printer_status'[q] = printer_status[q]
                           /\ printer_jobs'[q] = printer_jobs[q]]_vars

C28_Witness ==
    /\ reg_call = [op |-> "add_printer", printer |-> "HP2", returns |-> FALSE]
    /\ capacity = 1
    /\ printer_status = [p \in Printers |-> IF p = primary_printer THEN "busy" ELSE None]

\* C22: every connection attempt that follows a disconnection comes after the
\* fixed wait of the way the connection ended (5 s after a close, 10 s after
\* an exception); only KeyboardInterrupt ends the process; a running process
\* without a connection is attempting one or in front of its next attempt,
\* which it then makes.
C22_ReconnectsAfterDelay ==
    /\ [][/\ (conn.pc = "while" /\ conn'.pc = "run_forever") =>
                /\ conn.last = "closed" => conn.waited = close_delay
                /\ conn.last = "raised" => conn.waited = retry_delay
          /\ (conn.is_running /\ ~conn'.is_running) =>
                conn'.last = "KeyboardInterrupt"]_vars
    /\ [](conn.is_running => conn.pc \in {"while", "run_forever"})
    /\ [](conn.last \in {"closed", "raised"} => conn.is_running)
    /\ ((conn.pc = "while" /\ conn.last # "none") ~> (conn.pc = "run_forever"))

C22_Witness ==
    /\ conn = [pc |-> "run_forever", is_running |-> TRUE, sock |-> TRUE,
               last |-> "closed", waited |-> close_delay]
    /\ loops = MaxLoops

\* C23: the step that enters connected sends exactly one request_print_jobs,
\* whatever the queue size; an iteration of job_request_loop sends one if and
\* only if the normal queue holds fewer than 5 jobs.
C23_RequestsUnderBackpressure ==
    [][/\ (~conn.sock /\ conn'.sock) => req' = [by |-> "on_open", sent |-> TRUE]
       /\ req'.by = "job_request_loop" =>
             /\ conn.sock
             /\ req'.sent <=> queue_size < queue_full]_vars

C23_Witness ==
    /\ req = [by |-> "job_request_loop", sent |-> FALSE]
    /\ queue_size = queue_full
    /\ conn.sock

\* C37: within one call of the verification the payload is submitted to the
\* device at most once.
C37_SubmittedAtMostOnce == verify.sent <= 1

\* Steps wait_for_job_in_and_out_of_queue has left at most: the rounds of
\* one send, 15 polls and the end of the for loop that remain, then 60 polls
\* and the end of that loop.
Remaining(v) ==
    CASE v.pc = "while" ->
            (verify_max_retries - v.retries) * (appear_polls + 2) + leave_polls + 2
      [] v.pc = "appear" ->
            (verify_max_retries - v.retries - 1) * (appear_polls + 2)
            + (appear_polls + 1 - v.polls) + leave_polls + 2
      [] v.pc = "leave" -> leave_polls + 1 - v.polls
      [] OTHER -> 0

\* C38: wait_for_job_in_and_out_of_queue terminates: every step of a call
\* lowers the number of steps it has left; it sends at most 5 times, polls at
\* most 15 times after a send and at most 60 times for the job to leave, and
\* returns True only after the job was seen listed and then found absent.
C38_VerificationTerminates ==
    [][/\ (verify.pc # "idle" /\ verify' # verify) =>
             Remaining(verify') < Remaining(verify)
       /\ verify'.sent <= verify_max_retries
       /\ verify'.retries <= verify_max_retries
       /\ verify'.pc = "appear" => verify'.polls <= appear_polls
       /\ verify'.pc = "leave" => verify'.polls <= leave_polls
       /\ (verify'.pc = "done" /\ verify'.result) =>
             (verify'.appeared /\ ~verify'.seen)
       /\ (verify'.pc = "done" /\ ~verify'.appeared) => ~verify'.result]_vars

C38_Witness ==
    /\ verify.pc = "done"
    /\ verify.result
    /\ verify.sent = verify_max_retries
    /\ ~spooled

\* C35: at most one job_request_loop thread is alive at a time, however
\* often the connection is lost and made again.
C35_AtMostOneRequestLoop == loops <= 1

\* C31: whenever the retry queue holds a job, a process_print_queue thread
\* exists (started or running); nothing but an ingestion handler starts one,
\* so a state without one waits for a new inbound job.
C31_RetryHasDispatcher ==
    failed_jobs_queue # <<>> => \E t \in Threads : pc[t] # "none"

\* C36: after any sequence of enqueue, dequeue and remove_by_filename calls,
\* enqueue of a node that was dequeued or removed before included, head is
\* None iff tail is None iff size is 0, the tail has no successor, the chain
\* from head has no cycle and ends at tail, and size is the number of nodes
\* reached from head.
C36_StructuralInvariant ==
    /\ (q_head = 0) <=> (q_tail = 0)
    /\ (q_head = 0) <=> (q_size = 0)
    /\ q_tail # 0 => next_node[q_tail] = 0
    /\ Len(get_all_jobs) <= MaxNodes
    /\ \A i, j \in 1..Len(get_all_jobs) :
          get_all_jobs[i] = get_all_jobs[j] => i = j
    /\ q_tail # 0 => /\ get_all_jobs # <<>>
                     /\ get_all_jobs[Len(get_all_jobs)] = q_tail
    /\ q_size = Len(get_all_jobs)

\* The filenames of the descriptors of message m that on_message may hand to
\* a handler: those whose metadata.status is 'no'.
PendingFilenames(m) ==
    IF m.type \notin {"print_job", "print_jobs_response"} THEN {}
    ELSE {job_filename(m.jobs[i]) :
            i \in {k \in 1..Len(m.jobs) : /\ m.jobs[k] \notin BadDescriptors
                                          /\ metadata_status(m.jobs[k]) = "no"}}

\* C39: handling a message creates records, queue entries and handled ids
\* only for descriptors of that message whose metadata.status is 'no'; a
\* message without such a descriptor, a job_status_updated message and an
\* error message leave both queues, the handled-id set, the records and the
\* device registry as they are.
C39_OnlyStatusNoIngested ==
    [][/\ \A r \in (Len(jobs) + 1)..Len(jobs') :
             jobs'[r].filename \in PendingFilenames(handled_msg')
       /\ processed_jobs' \ processed_jobs \subseteq PendingFilenames(handled_msg')
       /\ print_queue' =
             print_queue \o [i \in 1..(Len(jobs') - Len(jobs)) |-> Len(jobs) + i]
       /\ SubSeq(jobs', 1, Len(jobs)) = jobs
       /\ (handled_msg'.type \in {"job_status_updated", "error"}
           \/ PendingFilenames(handled_msg') = {}) =>
             UNCHANGED <<print_queue, failed_jobs_queue, processed_jobs, jobs,
                         printer_status, printer_jobs>>]_vars

C39_Witness ==
    /\ handled_msg = [type |-> "print_jobs_response",
                      jobs |-> <<"a.pdf, status yes", "b.pdf">>]
    /\ jobs = <<PrintJobNode("b.pdf")>>
    /\ print_queue = <<1>>
    /\ processed_jobs = {"b.pdf"}

\* C40: in the simple client every process_job call so far has made exactly
\* one notify_job_complete call, for its job and with success exactly when
\* the job was printed; the jobs of a print_jobs_response are processed in
\* list order; and when the handling of the message has ended every job of
\* it was processed, whatever happened to the jobs before it.
C40_OneNotificationPerJob ==
    /\ Len(simple.calls) = Len(simple.processed)
    /\ Len(simple.processed) <= Len(simple.jobs)
    /\ \A i \in 1..Len(simple.processed) :
          /\ simple.processed[i].job = simple.jobs[i]
          /\ i <= Len(simple.calls) =>
                /\ simple.calls[i].job_id = simple.jobs[i].id
                /\ simple.calls[i].success <=> simple.processed[i].result = "printed"
    /\ \A i \in 1..Len(simple.sent) :
          simple.sent[i].status = "completed" <=> simple.sent[i].printed_successfully
    /\ simple.pc = "idle" => Len(simple.processed) = Len(simple.jobs)

\* C32: at most one process_print_queue thread is running at any time.
C32_AtMostOneDispatcher == loop_threads.running <= 1

\* The enqueues of a job with the filename that the given channels made.
EnqueuesOf(filename, channels) ==
    {i \in 1..Len(enqueued) : /\ enqueued[i].filename = filename
                              /\ enqueued[i].via \in channels}

\* C33: a job the poller fetched is enqueued once: as long as no execution
\* of it has succeeded, the poller and the watcher together have made at
\* most one job record for its token.
C33_PolledJobEnqueuedOnce ==
    \A filename \in Filenames \ completed :
        Cardinality(EnqueuesOf(filename, {"api", "dir"})) <= 1

\* C34: a job the live channel ingested and marked in processed_jobs has no
\* job record made by the poller or the watcher; and the poller enqueues no
\* job that has completed successfully.
C34_NoDuplicateAcrossChannels ==
    [][/\ \A filename \in processed_jobs' :
             \A i \in 1..Len(enqueued') :
                enqueued'[i].filename = filename => enqueued'[i].via = "live"
       /\ (Len(enqueued') > Len(enqueued) /\ enqueued'[Len(enqueued')].via = "api") =>
             enqueued'[Len(enqueued')].filename \notin completed]_vars

=============================================================================
